---- MODULE Spec2Model ----
(***************************************************************************)
(* A model of the s-ray core: the task scheduler (scheduler.ts), the       *)
(* signal graph (reactive.ts), the children binding of the template engine *)
(* (html.ts) and server rendering (htmlSSR.ts), each checked under its own *)
(* specification:                                                          *)
(*   SpecSched  the scheduler driven by arbitrary user tasks (SpecSchedFair *)
(*              with the flush steps weakly fair),                         *)
(*   SpecSignal a signal with the targets that read it,                    *)
(*   SpecReact  a signal rendered by a template through the scheduler,     *)
(*   SpecList   the keyed list reconciliation of a children binding,       *)
(*   SpecWatch  watchers of the four priorities on one counter,            *)
(*   SpecHook   one watcher with onInvalidate hooks and unwatch,           *)
(*   SpecComputed, SpecChain  the computed chain counter, double, triple,  *)
(*   SpecSsr    a template rendered to a string, hydrated and mounted,     *)
(*   SpecShared one template interpolated twice in another,                *)
(*   SpecTick   nextTick() against the scheduler,                          *)
(*   SpecTree   the parent and children links of nested instances,         *)
(*   SpecUnkeyed, SpecSlot  a binding of unkeyed lists, of mixed values,   *)
(*   SpecItem   a list of items with an event binding, and its holder,     *)
(*   SpecAnchor the comment anchors of serialized templates and lists.     *)
(***************************************************************************)
EXTENDS Integers, Sequences, FiniteSets, TLC

\* ------------------------------------------------------------------ bounds
NumTasks == 2       \* user tasks known to the scheduler
MaxCalls == 3       \* queueTask calls made in one behaviour
MaxBody == 2        \* queueTask calls one run of a task makes
MaxVal == 1         \* the signal holds 0..MaxVal
MaxStack == 2       \* depth of the reactive context stack
MaxKey == 4         \* list items carry the keys 0..MaxKey
MaxLen == 4         \* items of one list
MaxUpdates == 1     \* fixer runs of the list binding after the mount
MaxWrites == 2      \* writes to the watched counter in one behaviour
MaxHooks == 2       \* onInvalidate calls one callback run makes
MaxText == 2        \* characters of the text a rendered signal holds
MaxOps == 4         \* operations on the template tree in one behaviour
MaxItems == 3       \* items of one list without keys
MaxRounds == 3      \* fixer runs of a binding whose lists carry no key
MaxSlotKey == 2     \* keys of the lists a binding of mixed values shows
MaxParts == 2       \* text bindings of one serialized template
MaxDepth == 1       \* templates nested in an interpolated one, and items of a serialized list
MaxSerial == 2      \* toString() calls user code makes in one behaviour

\* ------------------------------------------------------- scheduler state
VARIABLES
  tasks,            \* tasks[p]: the Set of bucket p, in insertion order
  currentPromise,   \* TRUE iff currentPromise is not null
  microtask,        \* TRUE iff p.then(flushTasks) is waiting to run
  pc,               \* "idle", the bucket flushTasks is draining, "done", "aborted"
  idx,              \* entries of the drained bucket forEach has already visited
  hist              \* observations of the current flush cycle (not program state)

schedVars == <<tasks, currentPromise, microtask, pc, idx, hist>>

\* ---------------------------------------------------- signal graph state
VARIABLES
  value,                  \* Ref.#value of the signal
  deps,                   \* Ref.#deps: Map<Target, Set<Specifier>>, in insertion order
  reactiveContextStack,   \* the stack of {target, specifier} contexts
  inUse,                  \* isInUse of the plain target (a watcher's or computed's target)
  tpl,                    \* the template instance with one text binding on the signal
  obs                     \* observations of reads and of the last write (not program state)

reactVars == <<value, deps, reactiveContextStack, inUse, tpl, obs>>

\* ------------------------------------------- list children binding state
VARIABLES
  slot,          \* the template instances whose nodes stand before the binding's anchor, in DOM order
  dynamicNode,   \* fixerArgs.dynamicNode: the Text node or the recorded Template[]
  initialized,   \* the instances whose #doc exists (isInitialized)
  crashed,       \* the fixer ended with a TypeError
  round,         \* getter calls so far; instance <<r, k>> is the one html(k) built in call r
  lobs           \* observations of the last fixer run (not program state)

listVars == <<slot, dynamicNode, initialized, crashed, round, lobs>>

\* ------------------------------------------- computed and watcher state
VARIABLES
  refs,       \* refs[r]: #value and #deps of the Ref r ("counter", or a computed's signal)
  comp,       \* comp[c]: isDirty, innerValue and target.isInUse of the computed c
  watchers,   \* watchers[p]: the closure state of the watcher of priority p
  wobs        \* observations of reads, writes and callback runs (not program state)

watchVars == <<refs, comp, watchers, wobs>>

\* ------------------------------------ server rendering and hydration state
VARIABLES
  signals,    \* the refs the template reads: disabled (boolean) and text (string)
  htmlString, \* what toString() returned on the server, <<>> before it ran
  hydrated,   \* the tree of the instance hydrated over the parsed string
  client,     \* the tree of the instance mounted on the client
  queued,     \* the updating fixers the scheduler holds (the same for both instances)
  sobs        \* number of writes so far (not program state)

ssrVars == <<signals, htmlString, hydrated, client, queued, sobs>>

\* ------------------------------------------------------- nextTick state
VARIABLES
  tick        \* the promise one nextTick() call returned, and what was pending then

tickVars == <<tick>>

\* ------------------------------------------------- template tree state
VARIABLES
  nodes,      \* nodes[t]: where t's root nodes are: "none" before #init, "doc" in
              \* t's own fragment, "body", or the instance they are inserted in
  parent,     \* parent[t]: t.#parent
  children,   \* children[t]: t.#children
  fixerArgs,  \* fixerArgs[t]: oldValue and dynamicNode of t's children binding
  dev,        \* TRUE iff __ENV__ === 'development'
  tobs        \* observations of the last operation (not program state)

treeVars == <<nodes, parent, children, fixerArgs, dev, tobs>>

\* ------------------------------------- event bindings of list items state
VARIABLES
  listeners,  \* listeners[t]: the handlers attached to the <li> of item t by addEventListener
  handlers,   \* handlers[t]: the handler in t's #dynamicPartToGetterMap
  listHolder  \* the template holding the list: "new", "inUse", "unmounted", "remounted"

eventVars == <<listeners, handlers, listHolder>>

\* --------------------------------------------- server anchor ids state
VARIABLES
  templateId,     \* the module counter templateId of htmlSSR.ts
  textWarpperId,  \* the module counter textWarpperId of htmlSSR.ts
  chunks,         \* the comments of the string the last toString() call returned, in order
  serials         \* toString() calls made by user code so far (not program state)

anchorVars == <<templateId, textWarpperId, chunks, serials>>

Priority == {"immediate", "high", "middle", "low"}
Buckets == {"high", "middle", "low"}
Rank(p) == CASE p = "high" -> 1 [] p = "middle" -> 2 [] p = "low" -> 3

Tasks == 1..NumTasks

\* ---------------------------------------------------- sequence helpers
RECURSIVE Without(_, _)
Without(s, x) ==
  IF s = <<>> THEN <<>>
  ELSE IF Head(s) = x THEN Without(Tail(s), x)
       ELSE <<Head(s)>> \o Without(Tail(s), x)

Range(s) == {s[i] : i \in 1..Len(s)}

IndexOf(s, x) == IF x \in Range(s) THEN CHOOSE i \in 1..Len(s) : s[i] = x ELSE 0

\* A Set under iteration: q its entries in insertion order, i the number of
\* entries the running forEach has visited (0 when no forEach runs over it).
\* Set.prototype.delete: a deleted entry that was already visited no longer
\* counts as visited.
SetDelete(S, x) ==
  [q |-> Without(S.q, x),
   i |-> IF IndexOf(S.q, x) # 0 /\ IndexOf(S.q, x) <= S.i THEN S.i - 1 ELSE S.i]

\* Set.prototype.add: appends unless the value is already present
SetAdd(S, x) == [S EXCEPT !.q = IF x \in Range(@) THEN @ ELSE Append(@, x)]

\* queueTask without queue.delete(task): add alone keeps the old position
RenewNoDelete(S, x) == SetAdd(S, x)

\* queue.delete(task); queue.add(task)
Renew(S, x) == SetAdd(SetDelete(S, x), x)

\* The scheduler's own state as one record, so that queueTask can be applied
\* several times inside one step.
SchedState == [tasks |-> tasks, currentPromise |-> currentPromise,
               microtask |-> microtask, idx |-> idx]

\* queueTask(task, priority) for a non-immediate priority; cur is the bucket
\* flushTasks is iterating ("idle" when none).
queueTask(s, cur, task, priority) ==
  LET queue == Renew([q |-> s.tasks[priority],
                      i |-> IF cur = priority THEN s.idx ELSE 0], task)
  IN [s EXCEPT
        !.tasks[priority] = queue.q,
        !.idx = IF cur = priority THEN queue.i ELSE s.idx,
        !.currentPromise = TRUE,
        !.microtask = IF s.currentPromise THEN s.microtask ELSE TRUE]

\* flushTasks visits the buckets in this order
FlushOrderSwapped == <<"low", "middle", "high">>

FlushOrder == <<"high", "middle", "low">>

NextBucket(p) ==
  LET i == IndexOf(FlushOrder, p) IN
  IF i < Len(FlushOrder) THEN FlushOrder[i + 1] ELSE "done"

\* ------------------------------------------------- observation of a cycle
\* runCount[p][t]  runs of t out of bucket p in this flush
\* selfAt[p][t]    runCount[p][t] at t's latest queueTask(t, p) from inside its own run out of p
\* pendLog[p]      the queueTask(t, p) calls whose task has not run out of p since
\* owed            <<t, p>> queued during the flush at a priority equal to or lower than the
\*                 running task's and not run since
\* snap            <<t, p>> pending when the flush started
\* calls           queueTask calls made so far
\* groups[p][t]    times t became pending in bucket p: pending at the flush start, or queued
\*                 during the flush while not pending
\* multi           <<t, p>> run in this flush after several queueTask(t, p) since its previous run
HistInit ==
  [runCount |-> [p \in Buckets |-> [t \in Tasks |-> 0]],
   selfAt |-> [p \in Buckets |-> [t \in Tasks |-> 0]],
   pendLog |-> [p \in Buckets |-> <<>>],
   owed |-> {},
   snap |-> {},
   calls |-> 0,
   groups |-> [p \in Buckets |-> [t \in Tasks |-> 0]],
   multi |-> {}]

Calls == Tasks \X Buckets

Min(a, b) == IF a < b THEN a ELSE b

\* The bodies a run may have when c calls have been made
Bodies(c) == UNION {[1..n -> Calls] : n \in 0..Min(MaxBody, MaxCalls - c)}

\* A user task body: the queueTask calls it makes, in order
RECURSIVE RunBody(_, _, _)
RunBody(s, cur, body) ==
  IF body = <<>> THEN s
  ELSE RunBody(queueTask(s, cur, Head(body)[1], Head(body)[2]), cur, Tail(body))

RECURSIVE LogCalls(_, _, _, _)
LogCalls(h, cur, self, body) ==
  IF body = <<>> THEN h
  ELSE LET t == Head(body)[1]
           p == Head(body)[2]
           h1 == [h EXCEPT
                    !.pendLog[p] = Append(@, t),
                    !.groups[p][t] = IF t \in Range(h.pendLog[p]) THEN @ ELSE @ + 1,
                    !.calls = @ + 1,
                    !.owed = IF cur \in Buckets /\ Rank(p) >= Rank(cur)
                             THEN @ \cup {<<t, p>>} ELSE @,
                    !.selfAt[p][t] = IF cur = p /\ self = t
                                     THEN h.runCount[p][t] ELSE @]
       IN LogCalls(h1, cur, self, Tail(body))

SetSched(s) ==
  /\ tasks' = s.tasks
  /\ currentPromise' = s.currentPromise
  /\ microtask' = s.microtask
  /\ idx' = s.idx

Quiet == pc \in {"idle", "done", "aborted"}

\* A cycle's observations are kept until the first call after the flush end
HistNow ==
  IF pc = "done"
  THEN [HistInit EXCEPT !.pendLog = hist.pendLog, !.calls = hist.calls,
                        !.groups = [p \in Buckets |-> [t \in Tasks |->
                                      IF t \in Range(hist.pendLog[p]) THEN 1 ELSE 0]]]
  ELSE hist

\* ------------------------------------------------------------ signal graph
otherVars == <<reactVars, listVars, watchVars, ssrVars, tickVars, treeVars, eventVars, anchorVars>>

\* What the signal graph actions leave alone besides their own variables
reactOther == <<hist, listVars, watchVars, ssrVars, tickVars, treeVars, eventVars, anchorVars>>

\* null (the children binding's initial oldValue) and the empty text node
NoValue == -1

Values == 0..MaxVal

\* The state after ref(0) and html`${() => signal.value}`: nothing mounted
ReactInit ==
  /\ value = 0
  /\ deps = <<>>
  /\ reactiveContextStack = <<>>
  /\ inUse = TRUE
  /\ tpl = [mounted |-> FALSE, oldValue |-> NoValue, text |-> NoValue]
  /\ obs = [readers |-> {}, twice |-> {}, expect |-> {}, popped |-> {}, calls |-> <<>>]

\* The list binding after html`${renderList}`: parsed, nothing rendered yet
ListInit ==
  /\ slot = <<>>
  /\ dynamicNode = [isArray |-> FALSE, list |-> <<>>]
  /\ initialized = {}
  /\ crashed = FALSE
  /\ round = 0
  /\ lobs = [before |-> <<>>, new |-> <<>>, mounted |-> {}, unmounted |-> {}, adopted |-> {}]

Computeds == {"double", "triple"}

Refs == {"counter"} \cup Computeds

\* const counter = ref(0); const double = computed(() => counter.value * 2);
\* const triple = computed(() => double.value * 3); no watcher registered yet
WatchInit ==
  /\ refs = [r \in Refs |-> [value |-> 0, deps |-> <<>>]]
  /\ comp = [c \in Computeds |-> [isDirty |-> TRUE, innerValue |-> NoValue, isInUse |-> TRUE]]
  /\ watchers = [p \in Priority |->
                  [src |-> "none", isFirstRun |-> TRUE, oldValue |-> NoValue,
                   invalidateFn |-> <<0, 0>>, isInUse |-> FALSE]]
  /\ wobs = [reads |-> [c \in Computeds |-> 0],
             getterCalls |-> [c \in Computeds |-> 0],
             hasRead |-> {}, invalidated |-> {}, liveAtWrite |-> {},
             lastRead |-> [c \in Computeds |-> NoValue],
             writes |-> 0, last |-> "init", syncCb |-> 0, queuedBy |-> {}, deadAtWrite |-> {},
             due |-> {}, written |-> {}, dueAtFlush |-> {}, order |-> <<>>,
             args |-> [p \in Priority |-> <<NoValue, NoValue>>],
             seen |-> [p \in Priority |-> NoValue],
             prevSeen |-> [p \in Priority |-> NoValue],
             hookRuns |-> [p \in Priority |-> 0],
             reg |-> [p \in Priority |-> {}],
             expect |-> [p \in Priority |-> <<0, 0>>],
             fired |-> [p \in Priority |-> <<0, 0>>],
             firedBefore |-> [p \in Priority |-> <<0, 0>>],
             missed |-> {}, late |-> {}]

\* A tree of the rendered template html`<button ?disabled=${() => disabled.value}
\* title=${() => text.value}>${() => text.value}</button>`: what the DOM shows
\* and the oldValue each fixer keeps ({} for null)
NoTree == [live |-> FALSE, disabled |-> FALSE, title |-> <<>>, text |-> <<>>,
           oldTitle |-> {}, oldText |-> {}]

\* Before anything is rendered, with disabled = false and text = ''
SsrInit ==
  /\ signals = [disabled |-> FALSE, text |-> <<>>]
  /\ htmlString = <<>>
  /\ hydrated = NoTree
  /\ client = NoTree
  /\ queued = {}
  /\ sobs = 0

\* No nextTick() call made yet
TickInit ==
  tick = [awaited |-> "none", flushAtCall |-> FALSE, resolved |-> FALSE,
          pending |-> {}, inFlush |-> FALSE, calls |-> 0]

\* The instances of html.spec.ts: child1 = html`<a></a>`, child2 =
\* html`<h1>${child1}</h1>`, root = html`<div>${child2}</div>`
Originals == {"root", "child2", "child1"}

\* The originals and the clones cloneIfInUse() makes, named by the instance
\* whose binding holds them
Insts == Originals \cup {"child2@root", "child1@child2", "child1@child2@root"}

Null == "null"

\* new Template(...): not initialized, no parent, no children; the binding's
\* dynamicNode is the Text placeholder
TreeStart(d) ==
  /\ nodes = [t \in Insts |-> "none"]
  /\ parent = [t \in Insts |-> Null]
  /\ children = [t \in Insts |-> {}]
  /\ fixerArgs = [t \in Insts |-> [oldValue |-> Null, dynamicNode |-> "text"]]
  /\ dev = d
  /\ tobs = [op |-> "none", target |-> Null, dest |-> Null, errors |-> 0, ran |-> {},
             inited |-> {}, moved |-> {}, wasInUse |-> FALSE, ops |-> 0]

TreeInit == TreeStart(TRUE)

\* The instances html(k)`<li @click=${...}>...</li>` builds in the getter calls
ItemInsts == (1..MaxRounds) \X (1..MaxSlotKey)

\* No handler: the instance was never constructed
NoHandler == <<-1, -1>>

EventInit ==
  /\ listeners = [t \in ItemInsts |-> {}]
  /\ handlers = [t \in ItemInsts |-> NoHandler]
  /\ listHolder = "new"

\* let templateId = 0; let textWarpperId = 0; nothing serialized yet
AnchorInit ==
  /\ templateId = 0
  /\ textWarpperId = 0
  /\ chunks = <<>>
  /\ serials = 0

\* --------------------------------------------------------------- actions
\* User code calls queueTask(t, p) for a non-immediate p
QueueTask ==
  \E t \in Tasks, p \in Buckets :
    /\ Quiet
    /\ HistNow.calls < MaxCalls
    /\ SetSched(queueTask(SchedState, "idle", t, p))
    /\ hist' = LogCalls(HistNow, "idle", 0, <<<<t, p>>>>)
    /\ pc' = IF pc = "aborted" THEN "aborted" ELSE "idle"
    /\ UNCHANGED otherVars

\* User code calls queueTask(t, Priority.Immediate): the task runs at once
QueueImmediate ==
  \E t \in Tasks, body \in Bodies(HistNow.calls) :
    /\ Quiet
    /\ body # <<>>
    /\ SetSched(RunBody(SchedState, "idle", body))
    /\ hist' = LogCalls(HistNow, "idle", 0, body)
    /\ pc' = IF pc = "aborted" THEN "aborted" ELSE "idle"
    /\ UNCHANGED otherVars

\* The microtask runs flushTasks: forEach starts on the first bucket
FlushBegin ==
  /\ pc = "idle"
  /\ microtask
  /\ microtask' = FALSE
  /\ pc' = FlushOrder[1]
  /\ idx' = 0
  /\ UNCHANGED <<tasks, currentPromise>>

\* forEach is through with the bucket: clear() it and go on; after the last
\* bucket currentPromise = null
BucketEnd ==
  /\ pc \in Buckets
  /\ idx = Len(tasks[pc])
  /\ tasks' = [tasks EXCEPT ![pc] = <<>>]
  /\ idx' = 0
  /\ pc' = NextBucket(pc)
  /\ currentPromise' = IF NextBucket(pc) = "done" THEN FALSE ELSE currentPromise
  /\ UNCHANGED microtask

FlushStart ==
  /\ FlushBegin
  /\ hist' = [hist EXCEPT
       !.snap = {c \in Calls : c[1] \in Range(tasks[c[2]])},
       !.runCount = HistInit.runCount,
       !.selfAt = HistInit.selfAt,
       !.owed = {},
       !.groups = [p \in Buckets |-> [t \in Tasks |->
                     IF t \in Range(tasks[p]) THEN 1 ELSE 0]],
       !.multi = {}]
  /\ UNCHANGED otherVars

\* forEach calls the next task of the bucket; the task returns
RunTask ==
  \E body \in Bodies(hist.calls) :
    /\ pc \in Buckets
    /\ idx < Len(tasks[pc])
    /\ LET t == tasks[pc][idx + 1]
           h0 == [hist EXCEPT
                    !.runCount[pc][t] = @ + 1,
                    !.multi = IF Cardinality({i \in 1..Len(hist.pendLog[pc]) :
                                                hist.pendLog[pc][i] = t}) >= 2
                              THEN @ \cup {<<t, pc>>} ELSE @,
                    !.pendLog[pc] = Without(@, t),
                    !.owed = @ \ {<<t, pc>>}]
       IN /\ SetSched(RunBody([SchedState EXCEPT !.idx = idx + 1], pc, body))
          /\ hist' = LogCalls(h0, pc, t, body)
    /\ UNCHANGED <<pc, otherVars>>

\* forEach calls the next task of the bucket; the task throws, which ends
\* flushTasks before any clear() and before currentPromise = null
RunTaskThrows ==
  /\ pc \in Buckets
  /\ idx < Len(tasks[pc])
  /\ LET t == tasks[pc][idx + 1] IN
       hist' = [hist EXCEPT
                  !.runCount[pc][t] = @ + 1,
                  !.pendLog[pc] = Without(@, t),
                  !.owed = @ \ {<<t, pc>>}]
  /\ idx' = idx + 1
  /\ pc' = "aborted"
  /\ UNCHANGED <<tasks, currentPromise, microtask, otherVars>>

BucketDone ==
  /\ BucketEnd
  /\ UNCHANGED <<hist, otherVars>>

\* The module state of scheduler.ts after loading
SchedInit ==
  /\ tasks = [p \in Buckets |-> <<>>]
  /\ currentPromise = FALSE
  /\ microtask = FALSE
  /\ pc = "idle"
  /\ idx = 0
  /\ hist = HistInit

InitSched ==
  /\ SchedInit
  /\ ReactInit
  /\ ListInit
  /\ WatchInit
  /\ SsrInit
  /\ TickInit
  /\ TreeInit
  /\ EventInit
  /\ AnchorInit

NextSched ==
  \/ QueueTask
  \/ QueueImmediate
  \/ FlushStart
  \/ RunTask
  \/ RunTaskThrows
  \/ BucketDone

vars == <<schedVars, reactVars, listVars, watchVars, ssrVars, tickVars, treeVars, eventVars, anchorVars>>

SpecSched == InitSched /\ [][NextSched]_vars

\* ------------------------------------------------- scheduler properties
AllTasks == {c \in Calls : c[1] \in Range(tasks[c[2]])}

\* The entries of bucket p that are still to be run
Unvisited(p) == IF pc = p THEN SubSeq(tasks[p], idx + 1, Len(tasks[p])) ELSE tasks[p]

\* The distinct elements of a call log, in the order of their last occurrence
RECURSIVE KeepLast(_)
KeepLast(s) ==
  IF s = <<>> THEN <<>>
  ELSE IF Head(s) \in Range(Tail(s)) THEN KeepLast(Tail(s))
       ELSE <<Head(s)>> \o KeepLast(Tail(s))

\* C1: when a flush finishes, the High, Middle and Low buckets are all empty
\* and the pending-flush flag is cleared, whatever the tasks queued meanwhile.
C1_FlushEndsEmpty ==
  pc = "done" => (\A p \in Buckets : tasks[p] = <<>>) /\ ~currentPromise

C4_PriorityOrder ==
  LET ran(p) == \A t \in Tasks : <<t, p>> \in hist.snap => hist.runCount[p][t] >= 1
      none(p) == \A t \in Tasks : hist.runCount[p][t] = 0
  IN /\ pc = "high" => none("middle") /\ none("low")
     /\ pc = "middle" => ran("high") /\ none("low")
     /\ pc = "low" => ran("high") /\ ran("middle")
     /\ pc = "done" => ran("high") /\ ran("middle") /\ ran("low")

C4_Witness ==
  /\ pc = "done"
  /\ \A p \in Buckets : \E t \in Tasks : <<t, p>> \in hist.snap

\* C5: a task queued during a flush by a running task, at a priority equal to
\* or lower than the running task's, has run by the time the flush finishes,
\* also when it had already run earlier in that flush.
C5_QueuedDuringFlushRuns ==
  pc = "done" => hist.owed = {}

C5_Witness ==
  /\ pc = "done"
  /\ \E p \in Buckets, t \in Tasks : hist.runCount[p][t] = 2 /\ hist.selfAt[p][t] = 0

\* The microtask queue runs a scheduled flushTasks, and forEach goes on to the
\* next task or to the clear() after the last one: the steps of a flush are
\* taken whenever they stay possible; nothing obliges user code to call
\* queueTask.
SpecSchedFair ==
  /\ SpecSched
  /\ WF_vars(FlushStart)
  /\ WF_vars(RunTask \/ RunTaskThrows)
  /\ WF_vars(BucketDone)

\* C33: every task accepted by queueTask at a non-immediate priority leaves
\* its bucket executed by a flush, with no further queueTask call needed, also
\* when it was queued during a flush into a bucket of higher priority than
\* the queuing task's (a flush ended by a throwing task set aside).
C33_QueuedEventuallyRuns ==
  \A c \in Calls :
    (c \in AllTasks /\ pc # "aborted") ~> (c \notin AllTasks \/ pc = "aborted")

\* C37: after a task has thrown during a flush the pending-flush flag is
\* cleared, so that a task queued afterwards schedules a new flush.
C37_ThrowClearsFlag ==
  pc = "aborted" => ~currentPromise

\* ==================================================== the signal graph
\* The targets that read the signal: the template instance (specifier d0, its
\* text binding) and a plain target such as a watcher's (specifiers a, b).
Pairs == {<<"tpl", "d0">>, <<"w", "a">>, <<"w", "b">>}

UserContexts == {<<"w", "a">>, <<"w", "b">>}

\* target.isInUse
isInUse(target) == IF target = "tpl" THEN tpl.mounted ELSE inUse

\* deps.add(currentSpecifier) kept as a list: every read appends
SpecifiersPush(specifiers, specifier) == Append(specifiers, specifier)

\* deps.add(currentSpecifier) on the Set of specifiers of one target
SpecifiersAdd(specifiers, specifier) ==
  IF specifier \in Range(specifiers) THEN specifiers ELSE Append(specifiers, specifier)

\* A read that registers nothing
RefGetUntracked(d, st) == d

\* Ref.value (get) under the context stack st: registers the top context
RefGet(d, st) ==
  IF st = <<>> THEN d
  ELSE LET target == st[Len(st)][1]
           specifier == st[Len(st)][2]
           at == {i \in 1..Len(d) : d[i].target = target}
       IN IF at = {}
          THEN Append(d, [target |-> target, specifiers |-> SpecifiersAdd(<<>>, specifier)])
          ELSE [i \in 1..Len(d) |->
                  IF i \in at
                  THEN [d[i] EXCEPT !.specifiers = SpecifiersAdd(@, specifier)]
                  ELSE d[i]]

RECURSIVE RefSet(_)

\* A write that skips a dead target and leaves it in the map
RefSetKeepsDead(d) ==
  IF d = <<>> THEN [deps |-> <<>>, calls |-> <<>>]
  ELSE LET e == Head(d)
           r == RefSet(Tail(d))
       IN IF ~isInUse(e.target) THEN [deps |-> <<e>> \o r.deps, calls |-> r.calls]
          ELSE [deps |-> <<e>> \o r.deps,
                calls |-> [i \in 1..Len(e.specifiers) |-> <<e.target, e.specifiers[i]>>]
                          \o r.calls]

\* Ref.value (set), the loop over #deps: dead targets are deleted, every
\* specifier of a live target gets one target.update(specifier)
RefSet(d) ==
  IF d = <<>> THEN [deps |-> <<>>, calls |-> <<>>]
  ELSE LET e == Head(d)
           r == RefSet(Tail(d))
       IN IF ~isInUse(e.target) THEN r
          ELSE [deps |-> <<e>> \o r.deps,
                calls |-> [i \in 1..Len(e.specifiers) |-> <<e.target, e.specifiers[i]>>]
                          \o r.calls]

\* target.update(specifier) for each call of a write, in order: Template.update
\* queues the binding's fixer at the default priority; the plain target's
\* update has no effect on the modelled state
RECURSIVE Updates(_, _, _)
Updates(s, cur, calls) ==
  IF calls = <<>> THEN s
  ELSE Updates(IF Head(calls)[1] = "tpl" THEN queueTask(s, cur, "fixer", "middle") ELSE s,
               cur, Tail(calls))

\* What a read under the stack st adds to the observations
ObsRead(o, st) ==
  IF st = <<>> THEN o
  ELSE [o EXCEPT !.readers = @ \cup {st[Len(st)]},
                 !.twice = IF st[Len(st)] \in o.readers THEN @ \cup {st[Len(st)]} ELSE @]

\* signal.value = v
Write(v, cur) ==
  LET r == RefSet(deps) IN
  /\ value' = v
  /\ deps' = r.deps
  /\ SetSched(Updates(SchedState, cur, r.calls))
  /\ obs' = [obs EXCEPT !.expect = {c \in obs.readers : isInUse(c[1])},
                        !.popped = {c \in obs.readers : c \notin Range(reactiveContextStack)},
                        !.calls = r.calls]

\* #childrenFixer of the text binding: #runGetter reads the signal inside the
\* context {this, d0}; an unchanged value returns early, otherwise the text
\* node is replaced
childrenFixer ==
  LET st == Append(reactiveContextStack, <<"tpl", "d0">>) IN
  /\ deps' = RefGet(deps, st)
  /\ obs' = ObsRead(obs, st)
  /\ tpl' = IF tpl.oldValue = value THEN tpl
            ELSE [tpl EXCEPT !.oldValue = value, !.text = value]

ToIdle == pc' = IF pc = "done" THEN "idle" ELSE pc

\* pushReactiveContextStack({target, specifier})
PushContext ==
  \E c \in UserContexts :
    /\ Quiet
    /\ Len(reactiveContextStack) < MaxStack
    /\ reactiveContextStack' = Append(reactiveContextStack, c)
    /\ ToIdle
    /\ UNCHANGED <<tasks, currentPromise, microtask, idx, reactOther, value, deps, inUse, tpl, obs>>

\* popReactiveContextStack()
PopContext ==
  /\ Quiet
  /\ reactiveContextStack # <<>>
  /\ reactiveContextStack' = SubSeq(reactiveContextStack, 1, Len(reactiveContextStack) - 1)
  /\ ToIdle
  /\ UNCHANGED <<tasks, currentPromise, microtask, idx, reactOther, value, deps, inUse, tpl, obs>>

\* signal.value read by user code inside a reactive context
ReadSignal ==
  /\ Quiet
  /\ reactiveContextStack # <<>>
  /\ deps' = RefGet(deps, reactiveContextStack)
  /\ obs' = ObsRead(obs, reactiveContextStack)
  /\ ToIdle
  /\ UNCHANGED <<tasks, currentPromise, microtask, idx, reactOther, value, reactiveContextStack, inUse, tpl>>

\* target.isInUse = false (unwatch, or a computed's cleanup)
Unwatch ==
  /\ Quiet
  /\ inUse
  /\ inUse' = FALSE
  /\ ToIdle
  /\ UNCHANGED <<tasks, currentPromise, microtask, idx, reactOther, value, deps, reactiveContextStack, tpl, obs>>

\* signal.value = v by user code
WriteSignal ==
  \E v \in Values :
    /\ Quiet
    /\ Write(v, "idle")
    /\ ToIdle
    /\ UNCHANGED <<reactOther, reactiveContextStack, inUse, tpl>>

\* template.mountTo(container): the mounting fixers run, the nodes move out
MountTo ==
  /\ Quiet
  /\ ~tpl.mounted
  /\ LET st == Append(reactiveContextStack, <<"tpl", "d0">>) IN
       /\ deps' = RefGet(deps, st)
       /\ obs' = ObsRead(obs, st)
       /\ tpl' = IF tpl.oldValue = value THEN [tpl EXCEPT !.mounted = TRUE]
                 ELSE [tpl EXCEPT !.oldValue = value, !.text = value, !.mounted = TRUE]
  /\ ToIdle
  /\ UNCHANGED <<tasks, currentPromise, microtask, idx, reactOther, value, reactiveContextStack, inUse>>

\* template.unmount(): the nodes move back, the unmounting fixer resets oldValue
Unmount ==
  /\ Quiet
  /\ tpl.mounted
  /\ tpl' = [tpl EXCEPT !.mounted = FALSE, !.oldValue = NoValue]
  /\ ToIdle
  /\ UNCHANGED <<tasks, currentPromise, microtask, idx, reactOther, value, deps, reactiveContextStack, inUse, obs>>

\* template.update() by user code: every updating fixer is queued
UpdateAll ==
  /\ Quiet
  /\ tpl.text # NoValue
  /\ SetSched(queueTask(SchedState, "idle", "fixer", "middle"))
  /\ ToIdle
  /\ UNCHANGED <<reactOther, reactVars>>

\* queueTask(() => signal.value = v, p) by user code
QueueWriter ==
  \E p \in Buckets :
    /\ Quiet
    /\ SetSched(queueTask(SchedState, "idle", "writer", p))
    /\ ToIdle
    /\ UNCHANGED <<reactOther, reactVars>>

ReactFlushStart ==
  /\ reactiveContextStack = <<>>
  /\ FlushBegin
  /\ UNCHANGED <<reactOther, reactVars>>

\* forEach calls the text binding's fixer
RunFixer ==
  /\ pc \in Buckets
  /\ idx < Len(tasks[pc])
  /\ tasks[pc][idx + 1] = "fixer"
  /\ idx' = idx + 1
  /\ childrenFixer
  /\ UNCHANGED <<tasks, currentPromise, microtask, pc, reactOther, value, reactiveContextStack, inUse>>

\* forEach calls the user task, which writes the signal
RunWriter ==
  \E v \in Values :
    /\ pc \in Buckets
    /\ idx < Len(tasks[pc])
    /\ tasks[pc][idx + 1] = "writer"
    /\ LET r == RefSet(deps) IN
         /\ value' = v
         /\ deps' = r.deps
         /\ SetSched(Updates([SchedState EXCEPT !.idx = idx + 1], pc, r.calls))
         /\ obs' = [obs EXCEPT !.expect = {c \in obs.readers : isInUse(c[1])},
                        !.popped = {c \in obs.readers : c \notin Range(reactiveContextStack)},
                               !.calls = r.calls]
    /\ UNCHANGED <<pc, reactOther, reactiveContextStack, inUse, tpl>>

ReactBucketDone ==
  /\ BucketEnd
  /\ UNCHANGED <<reactOther, reactVars>>

InitSignal ==
  /\ SchedInit
  /\ ReactInit
  /\ ListInit
  /\ WatchInit
  /\ SsrInit
  /\ TickInit
  /\ TreeInit
  /\ EventInit
  /\ AnchorInit

\* The signal with its readers, before any flush
NextSignal ==
  \/ PushContext
  \/ PopContext
  \/ ReadSignal
  \/ Unwatch
  \/ WriteSignal
  \/ MountTo
  \/ Unmount

SpecSignal == InitSignal /\ [][NextSignal]_vars

InitReact ==
  /\ SchedInit
  /\ ReactInit
  /\ ListInit
  /\ WatchInit
  /\ SsrInit
  /\ TickInit
  /\ TreeInit
  /\ EventInit
  /\ AnchorInit

\* The signal, the template that renders it and the scheduler
NextReact ==
  \/ WriteSignal
  \/ MountTo
  \/ Unmount
  \/ UpdateAll
  \/ QueueWriter
  \/ ReactFlushStart
  \/ RunFixer
  \/ RunWriter
  \/ ReactBucketDone

SpecReact == InitReact /\ [][NextReact]_vars

\* ---------------------------------------------------- signal properties
Count(seq, x) == Cardinality({i \in 1..Len(seq) : seq[i] = x})

\* C6: a single write calls target.update(specifier) exactly once for each
\* live (target, specifier) pair that read the signal inside a reactive
\* context, however often the pair read it, and not at all for other pairs.
C6_UpdateOncePerPair ==
  \A c \in Pairs : Count(obs.calls, c) = IF c \in obs.expect THEN 1 ELSE 0

C6_Witness ==
  /\ Len(obs.calls) = 3
  /\ obs.expect \cap obs.twice # {}

\* C10: after a write to a signal that the mounted template's text binding
\* reads, the rendered text keeps the old value until the flush runs and shows
\* the signal's value once the flush has run.
C10_TextFollowsFlush ==
  /\ [](pc = "done" /\ tpl.mounted => tpl.text = value)
  /\ [][~(pc \in Buckets) /\ tpl.mounted /\ tpl'.mounted => tpl'.text = tpl.text]_vars

\* ============================================ the list children binding
Keys == 0..MaxKey

\* The lists a getter may return: items of one pattern with pairwise distinct keys
KeyLists ==
  {l \in UNION {[1..n -> Keys] : n \in 0..MaxLen} :
     \A i, j \in 1..Len(l) : i # j => l[i] # l[j]}

\* The Template[] built by getter call r for the keys ks: html(k)`...` each
NewList(r, ks) == [i \in 1..Len(ks) |-> <<r, ks[i]>>]

\* undefined: an index outside the array, or an entry set to undefined
Hole == <<0, 0>>

KeyOf(t) == t[2]

KeysOf(list) == [i \in 1..Len(list) |-> KeyOf(list[i])]

\* list[i] with the indices of the source, from 0
At(list, i) == IF i >= 0 /\ i < Len(list) THEN list[i + 1] ELSE Hole

\* strictSameAs on items of one pattern; a key of 0 is falsy in this.#key && other.#key
strictSameAs(a, b) == KeyOf(a) # 0 /\ KeyOf(b) # 0 /\ KeyOf(a) = KeyOf(b)

InsertBefore(sl, t, ref) ==
  LET w == Without(sl, t)
      j == IndexOf(w, ref)
  IN SubSeq(w, 1, j - 1) \o <<t>> \o SubSeq(w, j, Len(w))

InsertAfter(sl, t, ref) ==
  LET w == Without(sl, t)
      j == IndexOf(w, ref)
  IN SubSeq(w, 1, j) \o <<t>> \o SubSeq(w, j + 1, Len(w))

\* What a fixer run works on: the DOM slot, the initialized instances, whether
\* a TypeError ended the run, and what the run mounted, unmounted and adopted
DomState ==
  [slot |-> slot, initialized |-> initialized, crashed |-> FALSE,
   mounted |-> {}, unmounted |-> {}, adopted |-> {}]

\* this.moveToBefore(target): every root node is inserted before target's start
\* anchor; an instance never initialized has no root nodes and no anchors
moveToBefore(D, this, target) ==
  IF this \notin D.initialized THEN D
  ELSE IF target \notin D.initialized THEN [D EXCEPT !.crashed = TRUE]
  ELSE IF target \in Range(D.slot) THEN [D EXCEPT !.slot = InsertBefore(@, this, target)]
  ELSE [D EXCEPT !.slot = Without(@, this)]

\* this.moveToAfter(target): every root node is inserted after target's end anchor
moveToAfter(D, this, target) ==
  IF this \notin D.initialized THEN D
  ELSE IF target \notin D.initialized THEN [D EXCEPT !.crashed = TRUE]
  ELSE IF target \in Range(D.slot) THEN [D EXCEPT !.slot = InsertAfter(@, this, target)]
  ELSE [D EXCEPT !.slot = Without(@, this)]

\* t.mountTo(this, anchor) with anchor = before.#selfStartAnchor, or the
\* binding's anchorNode when before is undefined: #init, then insertBefore
mountTo(D, t, before) ==
  IF D.crashed \/ t \in Range(D.slot) THEN D
  ELSE LET D1 == [D EXCEPT !.initialized = @ \cup {t}] IN
       IF before = Hole
       THEN [D1 EXCEPT !.slot = Append(@, t), !.mounted = @ \cup {t}]
       ELSE IF before \notin D.initialized THEN [D1 EXCEPT !.crashed = TRUE]
       ELSE IF before \in Range(D.slot)
            THEN [D1 EXCEPT !.slot = InsertBefore(@, t, before), !.mounted = @ \cup {t}]
            ELSE [D1 EXCEPT !.mounted = @ \cup {t}]

\* t.unmount(): nothing unless t is in use
unmount(D, t) ==
  IF t \notin Range(D.slot) THEN D
  ELSE [D EXCEPT !.slot = Without(@, t), !.unmounted = @ \cup {t}]

\* old.adoptGettersFrom(new); old.update()
adoptGettersFrom(D, old, new) ==
  IF D.crashed THEN D ELSE [D EXCEPT !.adopted = @ \cup {<<old, new>>}]

\* oldList.findIndex(tpl => tpl.strictSameAs(x)): -1 when absent; an undefined
\* entry met on the way is a TypeError, shown as -2
RECURSIVE findIndex(_, _, _)
findIndex(old, x, i) ==
  IF i >= Len(old) THEN -1
  ELSE IF At(old, i) = Hole THEN -2
  ELSE IF strictSameAs(At(old, i), x) THEN i
  ELSE findIndex(old, x, i + 1)

\* The while loop of the sequence-to-sequence case
RECURSIVE DiffLoop(_, _)
DiffLoop(L, new) ==
  IF L.D.crashed \/ ~(L.oldStartIdx <= L.oldEndIdx /\ L.newStartIdx <= L.newEndIdx) THEN L
  ELSE
    LET oldStartTpl == At(L.old, L.oldStartIdx)
        oldEndTpl == At(L.old, L.oldEndIdx)
        newStartTpl == At(new, L.newStartIdx)
        newEndTpl == At(new, L.newEndIdx)
    IN
    IF oldStartTpl = Hole THEN
      DiffLoop([L EXCEPT !.oldStartIdx = @ + 1], new)
    ELSE IF oldEndTpl = Hole THEN
      DiffLoop([L EXCEPT !.oldEndIdx = @ - 1], new)
    ELSE IF strictSameAs(oldStartTpl, newStartTpl) THEN
      DiffLoop([L EXCEPT !.D = adoptGettersFrom(@, oldStartTpl, newStartTpl),
                         !.oldStartIdx = @ + 1, !.newStartIdx = @ + 1], new)
    ELSE IF strictSameAs(oldEndTpl, newEndTpl) THEN
      DiffLoop([L EXCEPT !.D = adoptGettersFrom(@, oldEndTpl, newEndTpl),
                         !.oldEndIdx = @ - 1, !.newEndIdx = @ - 1], new)
    ELSE IF strictSameAs(oldStartTpl, newEndTpl) THEN
      DiffLoop([L EXCEPT !.D = adoptGettersFrom(moveToAfter(@, oldStartTpl, oldEndTpl),
                                                oldStartTpl, newEndTpl),
                         !.oldStartIdx = @ + 1, !.newEndIdx = @ - 1], new)
    ELSE IF strictSameAs(oldEndTpl, newStartTpl) THEN
      DiffLoop([L EXCEPT !.D = adoptGettersFrom(moveToBefore(@, oldEndTpl, oldStartTpl),
                                                oldEndTpl, newStartTpl),
                         !.oldEndIdx = @ - 1, !.newStartIdx = @ + 1], new)
    ELSE
      LET idxInOld == findIndex(L.old, newStartTpl, 0) IN
      IF idxInOld = -2 THEN [L EXCEPT !.D.crashed = TRUE]
      ELSE IF idxInOld > 0 THEN
        LET tplToBeMoved == At(L.old, idxInOld) IN
        DiffLoop([L EXCEPT !.D = adoptGettersFrom(moveToBefore(@, tplToBeMoved, oldStartTpl),
                                                  tplToBeMoved, newStartTpl),
                           !.old[idxInOld + 1] = Hole,
                           !.newStartIdx = @ + 1], new)
      ELSE
        DiffLoop([L EXCEPT !.D = mountTo(@, newStartTpl, oldStartTpl),
                           !.newStartIdx = @ + 1], new)

\* for (i = newStartIdx; i <= newEndIdx; i++) newList[i].mountTo(this, ...)
RECURSIVE MountRest(_, _, _, _, _)
MountRest(D, new, i, newEndIdx, oldStartTpl) ==
  IF D.crashed \/ i > newEndIdx THEN D
  ELSE MountRest(mountTo(D, At(new, i), oldStartTpl), new, i + 1, newEndIdx, oldStartTpl)

\* for (i = oldStartIdx; i <= oldEndIdx; i++) oldList[i].unmount()
RECURSIVE UnmountRest(_, _, _, _)
\* A loop that unmounts nothing
UnmountRestSkips(D, old, i, oldEndIdx) == D

UnmountRest(D, old, i, oldEndIdx) ==
  IF D.crashed \/ i > oldEndIdx THEN D
  ELSE IF At(old, i) = Hole THEN [D EXCEPT !.crashed = TRUE]
  ELSE UnmountRest(unmount(D, At(old, i)), old, i + 1, oldEndIdx)

\* The two loops after the while loop
AfterLoop(L, new) ==
  IF L.D.crashed THEN L.D
  ELSE IF L.oldEndIdx < L.oldStartIdx /\ L.newEndIdx >= L.newStartIdx
       THEN MountRest(L.D, new, L.newStartIdx, L.newEndIdx, At(L.old, L.oldStartIdx))
  ELSE IF L.newEndIdx < L.newStartIdx /\ L.oldEndIdx >= L.oldStartIdx
       THEN UnmountRest(L.D, L.old, L.oldStartIdx, L.oldEndIdx)
  ELSE L.D

\* #childrenFixer, previous and current both arrays
Reconciled(old, new) ==
  LET L == DiffLoop([old |-> old, oldStartIdx |-> 0, oldEndIdx |-> Len(old) - 1,
                     newStartIdx |-> 0, newEndIdx |-> Len(new) - 1, D |-> DomState], new)
  IN [old |-> L.old, D |-> AfterLoop(L, new)]

\* for (i = 0; ...) current[i].mountTo(this, fixerArgs.anchorNode)
RECURSIVE MountAll(_, _, _)
MountAll(D, new, i) ==
  IF i >= Len(new) THEN D ELSE MountAll(mountTo(D, At(new, i), Hole), new, i + 1)

listOther == <<schedVars, reactVars, watchVars, ssrVars, tickVars, treeVars, eventVars, anchorVars>>

\* The mounting fixer's run: the Text node gives way to the getter's list
MountList ==
  /\ ~dynamicNode.isArray
  /\ \E ks \in KeyLists :
       \E new \in {NewList(round + 1, ks)} :
       \E D \in {MountAll(DomState, new, 0)} :
       /\ round' = round + 1
       /\ slot' = D.slot
       /\ initialized' = D.initialized
       /\ dynamicNode' = [isArray |-> TRUE, list |-> new]
       /\ crashed' = D.crashed
       /\ lobs' = [before |-> <<>>, new |-> new, mounted |-> D.mounted,
                   unmounted |-> D.unmounted, adopted |-> D.adopted]
       /\ UNCHANGED listOther

\* An updating fixer run out of a flush: the getter returns a new list and the
\* recorded list is reconciled with it. A TypeError leaves the recorded array,
\* entries set to undefined included, and ends the flush for good.
UpdateList ==
  /\ dynamicNode.isArray
  /\ ~crashed
  /\ round < MaxUpdates + 1
  /\ \E ks \in KeyLists :
       \E new \in {NewList(round + 1, ks)} :
       \E R \in {Reconciled(dynamicNode.list, new)} :
       \E list \in {IF R.D.crashed THEN R.old ELSE new} :
       /\ round' = round + 1
       /\ slot' = R.D.slot
       /\ dynamicNode' = [isArray |-> TRUE, list |-> list]
       /\ initialized' = R.D.initialized \cap (Range(R.D.slot) \cup Range(list))
       /\ crashed' = R.D.crashed
       /\ lobs' = [before |-> dynamicNode.list, new |-> new, mounted |-> R.D.mounted,
                   unmounted |-> R.D.unmounted, adopted |-> R.D.adopted]
       /\ UNCHANGED listOther

InitList ==
  /\ SchedInit
  /\ ReactInit
  /\ ListInit
  /\ WatchInit
  /\ SsrInit
  /\ TickInit
  /\ TreeInit
  /\ EventInit
  /\ AnchorInit

NextList ==
  \/ MountList
  \/ UpdateList

SpecList == InitList /\ [][NextList]_vars

\* ------------------------------------------------------ list properties
Updated == round >= 2

\* C7: after the update fixer has run on a change from keyed list A to keyed
\* list B, the templates mounted in the slot appear in exactly B's key order.
C7_SlotInNewKeyOrder ==
  Updated => KeysOf(slot) = KeysOf(lobs.new)

\* C8: an instance of A that is in use and whose key also occurs in B is not
\* unmounted and no new instance is mounted for its key: it stays in the slot.
C8_SurvivorsStayMounted ==
  Updated =>
    \A t \in Range(lobs.before) \ {Hole} :
      KeyOf(t) \in Range(KeysOf(lobs.new)) /\ (t \in Range(slot) \/ t \in lobs.unmounted)
        => /\ t \in Range(slot)
           /\ t \notin lobs.unmounted
           /\ \A m \in lobs.mounted : KeyOf(m) # KeyOf(t)

\* C9: when B adds keys to A, exactly one new instance is mounted for each key
\* of B absent from A, none for a key of A, and each newly mounted instance
\* stands at the position of its index in B.
C9_AddedKeysMountedInPlace ==
  LET oldKeys == Range(KeysOf(lobs.before))
      newKeys == Range(KeysOf(lobs.new))
  IN Updated /\ Hole \notin Range(lobs.before) /\ oldKeys \subseteq newKeys =>
       /\ {KeyOf(m) : m \in lobs.mounted} = newKeys \ oldKeys
       /\ Cardinality(lobs.mounted) = Cardinality(newKeys \ oldKeys)
       /\ \A i \in 1..Len(lobs.new) :
            lobs.new[i] \in lobs.mounted => i <= Len(slot) /\ slot[i] = lobs.new[i]

\* C39: the key 0 takes part in keyed matching as every other key does: when
\* both the old and the new list hold an item of key 0, the old instance is
\* matched with the new item (it adopts the item's getters) and stays mounted.
C39_ZeroKeyMatched ==
  Updated /\ ~crashed =>
    \A t \in Range(lobs.before) \ {Hole}, n \in Range(lobs.new) :
      KeyOf(t) = 0 /\ KeyOf(n) = 0 =>
        <<t, n>> \in lobs.adopted /\ t \in Range(slot)

\* ============================================== computed and watch
\* The reactive context a computed or a watcher pushes: its target and its
\* unique specifier (_computed_N_, _watcher_N_)
Context(t) == <<t, t>>

\* What one step of user code or one task works on: the refs, the computeds,
\* the watchers, the context stack and the scheduler, with the observations;
\* cur is the bucket being drained ("idle" outside a flush), k the number of
\* onInvalidate calls a callback run makes, ret the value last returned
World(cur, k) ==
  [refs |-> refs, comp |-> comp, watchers |-> watchers,
   stack |-> reactiveContextStack, sched |-> SchedState, obs |-> wobs,
   cur |-> cur, k |-> k, ret |-> NoValue]

Pop(st) == SubSeq(st, 1, Len(st) - 1)

\* The Ref a computed's getter reads
Source(c) == IF c = "double" THEN "counter" ELSE "double"

\* The value a computed or the counter has over the current counter value
Expected(G, src) ==
  IF src = "counter" THEN G.refs["counter"].value
  ELSE IF src = "double" THEN G.refs["counter"].value * 2
  ELSE G.refs["counter"].value * 2 * 3

\* A write that takes every target of the map to be in use
targetAlwaysInUse(G, t) == TRUE

\* target.isInUse
targetInUse(G, t) ==
  IF t \in Computeds THEN G.comp[t].isInUse ELSE G.watchers[t].isInUse

\* Ref.value (get) of the Ref r
get(G, r) ==
  [G EXCEPT !.refs[r].deps = RefGet(@, G.stack), !.ret = G.refs[r].value]

RemoveAt(d, i) == SubSeq(d, 1, i - 1) \o SubSeq(d, i + 1, Len(d))

\* The observations of a write to the Ref r: it invalidates the computeds
\* that have read r
ObsInvalidate(G, r) ==
  LET cs == {c \in G.obs.hasRead : Source(c) = r} IN
  [G EXCEPT !.obs.reads = [c \in Computeds |-> IF c \in cs THEN 0 ELSE @[c]],
            !.obs.getterCalls = [c \in Computeds |-> IF c \in cs THEN 0 ELSE @[c]],
            !.obs.invalidated = @ \cup cs,
            !.obs.liveAtWrite = (@ \ cs) \cup {c \in cs : G.comp[c].isInUse}]

RECURSIVE set(_, _, _)
RECURSIVE visit(_, _, _)
RECURSIVE forEachSpecifier(_, _, _, _)
RECURSIVE update(_, _)
RECURSIVE taskRunner(_, _)
RECURSIVE computedGet(_, _)
RECURSIVE getter(_, _)

\* Ref.value (set) of the Ref r
set(G, r, v) == visit(ObsInvalidate([G EXCEPT !.refs[r].value = v], r), r, 1)

\* for (const [target, specifiers] of this.#deps), at the i-th entry of the Map
visit(G, r, i) ==
  LET d == G.refs[r].deps IN
  IF i > Len(d) THEN G
  ELSE IF ~targetInUse(G, d[i].target)
       THEN visit([G EXCEPT !.refs[r].deps = RemoveAt(@, i)], r, i)
       ELSE visit(forEachSpecifier(G, d[i].target, d[i].specifiers, 1), r, i + 1)

\* specifiers.forEach(specifier => target.update(specifier))
forEachSpecifier(G, t, specifiers, j) ==
  IF j > Len(specifiers) THEN G
  ELSE forEachSpecifier(update(G, t), t, specifiers, j + 1)

\* A watcher's update calling queueTask(taskRunner) without its priority
updateDefaultPriority(G, t) ==
  IF t \in Computeds
  THEN LET G1 == get([G EXCEPT !.comp[t].isDirty = TRUE], t)
       IN set(G1, t, G1.ret + 1)
  ELSE [G EXCEPT !.sched = queueTask(@, G.cur, t, "middle"),
                 !.obs.queuedBy = @ \cup {t}]

\* target.update(specifier): a computed turns dirty and bumps its signal
\* (signal.value++ reads, then writes); a watcher queues its task runner at
\* its priority, and queueTask runs it at once when that is Immediate
update(G, t) ==
  IF t \in Computeds
  THEN LET G1 == get([G EXCEPT !.comp[t].isDirty = TRUE], t)
       IN set(G1, t, G1.ret + 1)
  ELSE IF t = "immediate" THEN taskRunner(G, t)
  ELSE [G EXCEPT !.sched = queueTask(@, G.cur, t, t),
                 !.obs.queuedBy = @ \cup {t}]

\* The getter of a computed: counter.value * 2, double.value * 3
getter(G, c) ==
  IF c = "double"
  THEN LET G1 == get(G, "counter") IN [G1 EXCEPT !.ret = G1.ret * 2]
  ELSE LET G1 == computedGet(G, "double") IN [G1 EXCEPT !.ret = G1.ret * 3]

\* Recomputing a computed in place of the cached innerValue
Recompute(G, c) ==
  LET G1 == [G EXCEPT !.stack = Append(@, Context(c)),
                      !.comp[c].isDirty = FALSE,
                      !.obs.getterCalls[c] = Min(@ + 1, 2),
                      !.obs.hasRead = @ \cup {c}]
      G2 == getter(G1, c)
  IN [G2 EXCEPT !.comp[c].innerValue = G2.ret, !.stack = Pop(@)]

\* Running the getter on every read
computedGetAlways(G, c) ==
  LET G1 == Recompute(get(G, c), c)
  IN [G1 EXCEPT !.obs.reads[c] = Min(@ + 1, 2), !.obs.lastRead[c] = G1.ret]

\* ComputedRef.value (get): reads the computed's signal, then returns the
\* cached innerValue unless the computed is dirty
computedGet(G, c) ==
  LET G1 == get(G, c)
      G2 == IF ~G1.comp[c].isDirty THEN [G1 EXCEPT !.ret = G1.comp[c].innerValue]
            ELSE Recompute(G1, c)
  IN [G2 EXCEPT !.obs.reads[c] = Min(@ + 1, 2), !.obs.lastRead[c] = G2.ret]

\* The getter of a watcher: () => getterOrRef.value
sourceGet(G, src) == IF src = "counter" THEN get(G, "counter") ELSE computedGet(G, src)

\* No hook registered: invalidateFn = null
NoHook == <<0, 0>>

\* The hooks registered by one run of the callback: the one with the last
\* index was registered last
LastOf(S) == IF S = {} THEN NoHook ELSE CHOOSE h \in S : \A g \in S : g[2] <= h[2]

\* An onInvalidate that keeps the first hook of a run: invalidateFn ??= cb
callbackKeepsFirstHook(G, w, newValue) ==
  [G EXCEPT !.obs.args[w] = <<newValue, G.watchers[w].oldValue>>,
            !.obs.order = IF G.cur \in Buckets THEN Append(@, w) ELSE @,
            !.obs.syncCb = IF w = "immediate" THEN @ + 1 ELSE @,
            !.obs.firedBefore[w] = G.obs.fired[w],
            !.obs.late = IF ~G.watchers[w].isInUse THEN @ \cup {w} ELSE @,
            !.obs.due = @ \ {w},
            !.obs.hookRuns[w] = IF G.k > 0 THEN @ + 1 ELSE @,
            !.obs.reg[w] = {<<G.obs.hookRuns[w] + 1, j>> : j \in 1..G.k},
            !.watchers[w].invalidateFn = IF G.k > 0 THEN <<G.obs.hookRuns[w] + 1, 1>> ELSE @]

\* callback(value, oldValue, onInvalidate) of the watcher w: user code, which
\* calls onInvalidate G.k times; each call overwrites invalidateFn
callback(G, w, newValue) ==
  [G EXCEPT !.obs.args[w] = <<newValue, G.watchers[w].oldValue>>,
            !.obs.order = IF G.cur \in Buckets THEN Append(@, w) ELSE @,
            !.obs.syncCb = IF w = "immediate" THEN @ + 1 ELSE @,
            !.obs.firedBefore[w] = G.obs.fired[w],
            !.obs.late = IF ~G.watchers[w].isInUse THEN @ \cup {w} ELSE @,
            !.obs.due = @ \ {w},
            !.obs.hookRuns[w] = IF G.k > 0 THEN @ + 1 ELSE @,
            !.obs.reg[w] = {<<G.obs.hookRuns[w] + 1, j>> : j \in 1..G.k},
            !.watchers[w].invalidateFn = IF G.k > 0 THEN <<G.obs.hookRuns[w] + 1, G.k>> ELSE @]

\* A task runner that never stores the value it has seen in oldValue
taskRunnerKeepsOld(G, w) ==
  LET G1 == sourceGet([G EXCEPT !.stack = Append(@, Context(w))], G.watchers[w].src)
      v == G1.ret
      fn == G1.watchers[w].invalidateFn
      G2 == [G1 EXCEPT !.stack = Pop(@),
                       !.obs.prevSeen[w] = G1.obs.seen[w],
                       !.obs.seen[w] = v,
                       !.obs.missed = @ \cup {<<w, h>> : h \in G1.obs.reg[w] \ {fn}},
                       !.obs.expect[w] = LastOf(G1.obs.reg[w]),
                       !.obs.fired[w] = fn,
                       !.obs.reg[w] = {}]
      G3 == IF ~G2.watchers[w].isFirstRun \/ w = "immediate"
            THEN callback(G2, w, v) ELSE G2
  IN [G3 EXCEPT !.watchers[w].isFirstRun = FALSE]

\* taskRunner of the watcher w
taskRunner(G, w) ==
  LET G1 == sourceGet([G EXCEPT !.stack = Append(@, Context(w))], G.watchers[w].src)
      v == G1.ret
      fn == G1.watchers[w].invalidateFn
      G2 == [G1 EXCEPT !.stack = Pop(@),
                       !.obs.prevSeen[w] = G1.obs.seen[w],
                       !.obs.seen[w] = v,
                       !.obs.missed = @ \cup {<<w, h>> : h \in G1.obs.reg[w] \ {fn}},
                       !.obs.expect[w] = LastOf(G1.obs.reg[w]),
                       !.obs.fired[w] = fn,
                       !.obs.reg[w] = {}]
      G3 == IF ~G2.watchers[w].isFirstRun \/ w = "immediate"
            THEN callback(G2, w, v) ELSE G2
  IN [G3 EXCEPT !.watchers[w].oldValue = v, !.watchers[w].isFirstRun = FALSE]

\* ------------------------------------------------ computed/watch actions
watchOther == <<hist, listVars, value, deps, inUse, tpl, obs, ssrVars, tickVars, treeVars, eventVars, anchorVars>>

SetWorld(G) ==
  /\ refs' = G.refs
  /\ comp' = G.comp
  /\ watchers' = G.watchers
  /\ reactiveContextStack' = G.stack
  /\ wobs' = G.obs
  /\ SetSched(G.sched)

\* The observations at the start of a step of the given kind
Step(G, kind) ==
  [G EXCEPT !.obs.last = kind, !.obs.syncCb = 0, !.obs.queuedBy = {}]

Registered == {p \in Priority : watchers[p].src # "none"}

Watching == {p \in Registered : watchers[p].isInUse}

\* watch(src, callback, {priority: p}): the first run of the task runner
watch(p, src, k) ==
  /\ Quiet
  /\ p \notin Registered
  /\ LET G == Step([World("idle", k) EXCEPT
                      !.watchers[p] = [src |-> src, isFirstRun |-> TRUE, oldValue |-> NoValue,
                                       invalidateFn |-> NoHook, isInUse |-> TRUE]],
                   IF p = "immediate" THEN "watchImmediate" ELSE "watch")
     IN SetWorld(taskRunner(G, p))
  /\ ToIdle
  /\ UNCHANGED watchOther

\* watch(counter, cb, {priority}) for one of the four priorities
WatchCounter ==
  \E p \in Priority : watch(p, "counter", 0)

\* unwatch(): target.isInUse = false
StopWatch ==
  \E p \in Watching :
    /\ Quiet
    /\ watchers' = [watchers EXCEPT ![p].isInUse = FALSE]
    /\ wobs' = [wobs EXCEPT !.last = "unwatch"]
    /\ ToIdle
    /\ UNCHANGED <<tasks, currentPromise, microtask, idx, refs, comp,
                   reactiveContextStack, watchOther>>

\* The observations of a write to the counter
ObsWrite(G) ==
  [G EXCEPT !.obs.writes = @ + 1,
            !.obs.deadAtWrite = {p \in Priority : G.watchers[p].src # "none"
                                                  /\ ~G.watchers[p].isInUse},
            !.obs.due = @ \cup {p \in Priority : G.watchers[p].isInUse},
            !.obs.written = @ \cup {p \in Priority : G.watchers[p].isInUse},
            !.obs.lastRead = [c \in Computeds |-> NoValue]]

\* counter.value = v by user code outside a flush
writeCounter(v, k) ==
  /\ Quiet
  /\ wobs.writes < MaxWrites
  /\ SetWorld(set(ObsWrite(Step(World("idle", k), "write")), "counter", v))
  /\ ToIdle
  /\ UNCHANGED watchOther

WriteCounter ==
  \E v \in Values : writeCounter(v, 0)

\* The microtask runs flushTasks
WatchFlushStart ==
  /\ FlushBegin
  /\ wobs' = [wobs EXCEPT !.dueAtFlush = wobs.written, !.written = {},
                          !.order = <<>>, !.last = "flush"]
  /\ UNCHANGED <<refs, comp, watchers, reactiveContextStack, watchOther>>

\* forEach calls the task runner of a watcher
runWatcher(k) ==
  /\ pc \in Buckets
  /\ idx < Len(tasks[pc])
  /\ tasks[pc][idx + 1] \in Priority
  /\ LET G == Step([World(pc, k) EXCEPT !.sched.idx = idx + 1], "run")
     IN SetWorld(taskRunner(G, tasks[pc][idx + 1]))
  /\ UNCHANGED <<pc, watchOther>>

RunWatcher == runWatcher(0)

WatchBucketDone ==
  /\ BucketEnd
  /\ UNCHANGED <<watchVars, reactiveContextStack, watchOther>>

InitWatch ==
  /\ SchedInit
  /\ ReactInit
  /\ ListInit
  /\ WatchInit
  /\ SsrInit
  /\ TickInit
  /\ TreeInit
  /\ EventInit
  /\ AnchorInit

\* The counter with up to four watchers on it, one of each priority
NextWatch ==
  \/ WatchCounter
  \/ WriteCounter
  \/ WatchFlushStart
  \/ RunWatcher
  \/ WatchBucketDone

SpecWatch == InitWatch /\ [][NextWatch]_vars

\* watch(counter, cb, {priority}) for the one watcher of the behaviour; a
\* watcher of Immediate priority calls cb during the registration
WatchOne ==
  \E p \in Priority : \E k \in (IF p = "immediate" THEN 0..MaxHooks ELSE {0}) :
    /\ Registered = {}
    /\ watch(p, "counter", k)

\* counter.value = v by user code; an Immediate watcher's callback runs inside
WriteHooked ==
  \E v \in Values : \E k \in (IF "immediate" \in Watching THEN 0..MaxHooks ELSE {0}) :
    writeCounter(v, k)

\* forEach calls the task runner of the watcher, whose callback calls
\* onInvalidate up to MaxHooks times
RunWatcherHooked ==
  \E k \in 0..MaxHooks : runWatcher(k)

\* One watcher on the counter, which may be unwatched at any time
NextHook ==
  \/ WatchOne
  \/ StopWatch
  \/ WriteHooked
  \/ WatchFlushStart
  \/ RunWatcherHooked
  \/ WatchBucketDone

SpecHook == InitWatch /\ [][NextHook]_vars

\* computed.value read by user code outside any reactive context
ReadComputed ==
  \E c \in Computeds :
    /\ Quiet
    /\ SetWorld(computedGet(Step(World("idle", 0), "read"), c))
    /\ ToIdle
    /\ UNCHANGED watchOther

\* The cleanup registered by computed(): target.isInUse = false
Cleanup ==
  \E c \in Computeds :
    /\ Quiet
    /\ comp[c].isInUse
    /\ comp' = [comp EXCEPT ![c].isInUse = FALSE]
    /\ wobs' = [wobs EXCEPT !.last = "cleanup"]
    /\ ToIdle
    /\ UNCHANGED <<tasks, currentPromise, microtask, idx, refs, watchers,
                   reactiveContextStack, watchOther>>

\* watch(double, cb, {priority}) or watch(triple, cb, {priority}), once
WatchComputed ==
  \E p \in Priority, c \in Computeds :
    /\ Registered = {}
    /\ watch(p, c, 0)

\* queueTask(() => counter.value = v, p) by user code
QueueCounterWriter ==
  \E p \in Buckets :
    /\ Quiet
    /\ wobs.writes < MaxWrites
    /\ "writer" \notin UNION {Range(tasks[b]) : b \in Buckets}
    /\ SetSched(queueTask(SchedState, "idle", "writer", p))
    /\ ToIdle
    /\ UNCHANGED <<watchVars, reactiveContextStack, watchOther>>

\* forEach calls the user task, which writes the counter
RunCounterWriter ==
  \E v \in Values :
    /\ pc \in Buckets
    /\ idx < Len(tasks[pc])
    /\ tasks[pc][idx + 1] = "writer"
    /\ LET G == ObsWrite(Step([World(pc, 0) EXCEPT !.sched.idx = idx + 1], "write"))
       IN SetWorld(set(G, "counter", v))
    /\ UNCHANGED <<pc, watchOther>>

\* The counter and the chain double and triple, read by user code
NextComputed ==
  \/ ReadComputed
  \/ Cleanup
  \/ WriteCounter

SpecComputed == InitWatch /\ [][NextComputed]_vars

\* The chain with one watcher on it and the scheduler
NextChain ==
  \/ ReadComputed
  \/ WriteCounter
  \/ WatchComputed
  \/ QueueCounterWriter
  \/ RunCounterWriter
  \/ WatchFlushStart
  \/ RunWatcher
  \/ WatchBucketDone

SpecChain == InitWatch /\ [][NextChain]_vars

\* ------------------------------------------- computed and watch properties
\* C11 as stated: between two consecutive invalidations of a computed (writes
\* to a signal it read), N >= 1 reads of its value invoke the getter exactly
\* once.
C11_GetterOncePerInvalidation ==
  \A c \in wobs.invalidated : wobs.reads[c] >= 1 => wobs.getterCalls[c] = 1

\* C11 amended: between two consecutive writes to a signal a computed read,
\* N >= 1 reads of its value invoke the getter at most once, and exactly once
\* when the computed's target was in use at the first of the two writes.
C11_GetterOnceWhileInUse ==
  \A c \in wobs.invalidated :
    wobs.reads[c] >= 1 =>
      /\ wobs.getterCalls[c] <= 1
      /\ c \in wobs.liveAtWrite => wobs.getterCalls[c] = 1

C11_Witness ==
  /\ "triple" \in wobs.invalidated \cap wobs.liveAtWrite
  /\ wobs.reads["triple"] = 2
  /\ wobs.getterCalls["triple"] = 1
  /\ wobs.writes = 2

\* The value of the counter or of a computed over the current counter value
Now(src) == Expected([refs |-> refs], src)

\* C12: after a write to the counter, a read of double or of triple returns
\* the getter's result over the current counter value, never the value cached
\* before the write; and when a flush has run, the watcher of a computed of
\* the chain has received the recomputed value.
C12_ChainFollowsWrites ==
  /\ \A c \in Computeds : wobs.lastRead[c] # NoValue => wobs.lastRead[c] = Now(c)
  /\ pc = "done" =>
       \A w \in Watching :
         /\ w \notin wobs.due
         /\ wobs.args[w][1] # NoValue => wobs.args[w][1] = Now(watchers[w].src)

\* The non-immediate priorities in flush order, those in S only
InFlushOrder(S) == SelectSeq(FlushOrder, LAMBDA p : p \in S)

\* C13: with watchers of Low, Middle, High and Immediate priority on the
\* counter, the Immediate watcher's callback runs synchronously at its
\* registration and inside each write, and after one flush the callbacks of
\* the other watchers that were notified have run in the order High, Middle,
\* Low, whatever the registration order.
C13_ImmediateSyncOthersByPriority ==
  /\ wobs.last = "watchImmediate" => wobs.syncCb = 1
  /\ wobs.last = "write" /\ "immediate" \in Watching => wobs.syncCb = 1
  /\ pc = "done" => wobs.order = InFlushOrder(wobs.dueAtFlush)

C13_Witness ==
  /\ pc = "done"
  /\ wobs.order = <<"high", "middle", "low">>
  /\ "immediate" \in Watching
  /\ refs["counter"].deps[1].target = "low"
  /\ refs["counter"].deps[2].target = "immediate"

\* C14 as stated: any number of writes to the watched counter between two
\* flushes causes exactly one callback invocation in the next flush, with
\* newValue the counter's value at flush time and oldValue the value seen by
\* the watcher's previous run.
C14_OneCallbackPerFlush ==
  pc = "done" =>
    \A w \in wobs.dueAtFlush :
      /\ Count(wobs.order, w) = 1
      /\ wobs.args[w] = <<Now("counter"), wobs.prevSeen[w]>>

\* C14 amended: for a watcher of High, Middle or Low priority, any number of
\* writes between two flushes causes exactly one callback invocation in the
\* next flush, with newValue the value at flush time and oldValue the value
\* seen by the watcher's previous run; the callback of an Immediate watcher
\* is not invoked by the flush.
C14_OneCallbackPerFlushQueued ==
  pc = "done" =>
    /\ \A w \in wobs.dueAtFlush \ {"immediate"} :
         /\ Count(wobs.order, w) = 1
         /\ wobs.args[w] = <<Now("counter"), wobs.prevSeen[w]>>
    /\ Count(wobs.order, "immediate") = 0

C14_Witness ==
  /\ pc = "done"
  /\ Count(wobs.order, "low") = 1
  /\ wobs.args["low"] = <<0, 0>>
  /\ wobs.args["high"] = <<0, 1>>
  /\ "immediate" \in wobs.dueAtFlush

\* The watchers in the counter's dependent map
CounterTargets == {refs["counter"].deps[i].target : i \in 1..Len(refs["counter"].deps)}

\* C15: after unwatch() a write to the watched counter does not invoke the
\* watcher's callback (neither queues its task runner nor, for an Immediate
\* watcher, runs it), and the write removes the watcher from the counter's
\* dependent map.
C15_WriteAfterUnwatchPrunes ==
  wobs.last = "write" =>
    \A w \in wobs.deadAtWrite :
      /\ w \notin wobs.queuedBy
      /\ wobs.syncCb = 0
      /\ w \notin CounterTargets

C15_Witness ==
  /\ wobs.last = "write"
  /\ wobs.writes = 2
  /\ wobs.deadAtWrite # {}
  /\ \A w \in wobs.deadAtWrite : wobs.args[w][1] # NoValue /\ ~watchers[w].isFirstRun

\* C16 as stated: every hook registered through onInvalidate during run k of
\* a watcher's callback is invoked during the watcher's next run, before the
\* callback of that run.
C16_EveryHookRunsNext == wobs.missed = {}

\* C16 amended: the hook registered last through onInvalidate during run k of
\* a watcher's callback is the one invoked during the watcher's next run,
\* before the callback of that run is called.
C16_LastHookRunsNext ==
  \A w \in Registered :
    wobs.expect[w] # NoHook => wobs.firedBefore[w] = wobs.expect[w]

C16_Witness ==
  \E w \in Registered :
    /\ wobs.expect[w] # NoHook
    /\ wobs.expect[w][2] = 2
    /\ wobs.firedBefore[w] = wobs.expect[w]
    /\ wobs.last = "run"

\* The step ran the task runner of the watcher w: forEach called it, or, for
\* the Immediate watcher, a write called it synchronously
RanIn(w) ==
  \/ /\ pc \in Buckets
     /\ idx < Len(tasks[pc])
     /\ tasks[pc][idx + 1] = w
     /\ idx' = idx + 1
  \/ /\ w = "immediate"
     /\ wobs'.last = "write"
     /\ wobs'.syncCb = 1

\* C38: a hook registered through onInvalidate is invoked once, at the
\* watcher's next run: the hook a run of the task runner invokes is never the
\* hook its previous run invoked.
C38_HookInvokedOnce ==
  [][\A w \in Priority :
       RanIn(w) /\ wobs'.fired[w] # NoHook => wobs'.fired[w] # wobs.fired[w]]_vars

\* C17: after unwatch() no callback of the watcher runs in any later flush,
\* even when its task runner had been queued before the call.
C17_NoCallbackAfterUnwatch == wobs.late = {}

\* The targets in the signal's dependent map
Targets(d) == {d[i].target : i \in 1..Len(d)}

\* The subscribers of the signal whose isInUse is false
DeadInMap == {t \in Targets(deps) : ~isInUse(t)}

\* C18: a write to the signal removes from the dependent map every subscriber
\* whose isInUse is false when the write visits it, and does not call that
\* subscriber's update.
C18_WritePrunesDead ==
  [][WriteSignal =>
       \A t \in DeadInMap :
         /\ t \notin Targets(deps')
         /\ \A i \in 1..Len(obs'.calls) : obs'.calls[i][1] # t]_vars

C18_Witness ==
  /\ <<"w", "a">> \in obs.readers
  /\ ~inUse
  /\ "w" \notin Targets(deps)
  /\ "tpl" \in Targets(deps)
  /\ obs.calls = <<<<"tpl", "d0">>>>

\* C19 as stated: a context that was pushed, read the signal and was popped
\* before the signal is written has its update invoked zero times by the
\* write.
C19_PoppedContextNotUpdated ==
  \A c \in obs.popped \cap UserContexts : Count(obs.calls, c) = 0

\* C19 amended: a context that was pushed, read the signal and was popped
\* before the signal is written stays subscribed: the write invokes its
\* update exactly once while its target is in use, and zero times once the
\* target is no longer in use.
C19_PoppedContextStaysSubscribed ==
  \A c \in obs.popped \cap UserContexts :
    Count(obs.calls, c) = IF c \in obs.expect THEN 1 ELSE 0

C19_Witness ==
  /\ obs.popped = UserContexts
  /\ Count(obs.calls, <<"w", "a">>) = 1
  /\ Count(obs.calls, <<"w", "b">>) = 1

\* ======================================== server rendering and hydration
Chars == {"a", "&"}

\* The strings a text signal may hold
Texts == UNION {[1..n -> Chars] : n \in 0..MaxText}

Amp == <<"&", "a", "m", "p", ";">>

\* sanitizeHtml: & is replaced by &amp;
RECURSIVE sanitizeHtml(_)
sanitizeHtml(str) ==
  IF str = <<>> THEN <<>>
  ELSE (IF Head(str) = "&" THEN Amp ELSE <<Head(str)>>) \o sanitizeHtml(Tail(str))

\* The HTML parser decoding character references in text and attribute values
RECURSIVE Unescape(_)
Unescape(str) ==
  IF str = <<>> THEN <<>>
  ELSE IF Len(str) >= 5 /\ SubSeq(str, 1, 5) = Amp
       THEN <<"&">> \o Unescape(SubSeq(str, 6, Len(str)))
       ELSE <<Head(str)>> \o Unescape(Tail(str))

\* SSRTemplate.toString(): #renderAttributes writes the boolean attribute
\* after its ?-binding whatever the getter returned, and the sanitized value
\* of the normal attribute; #onText writes the sanitized text between its
\* anchors, a space in place of the empty string
toString(sig) ==
  [boolAttr |-> TRUE,
   normalAttr |-> sanitizeHtml(sig.text),
   textNode |-> IF sanitizeHtml(sig.text) = <<>> THEN <<" ">> ELSE sanitizeHtml(sig.text)]

\* The nodes the browser parses from the string
parse(str) ==
  [live |-> TRUE, disabled |-> str.boolAttr, title |-> Unescape(str.normalAttr),
   text |-> Unescape(str.textNode), oldTitle |-> {}, oldText |-> {}]

\* #propertyFixer of the ?disabled binding
propertyFixer(T, sig, isHydrating) ==
  IF isHydrating THEN T ELSE [T EXCEPT !.disabled = (sig.disabled # FALSE)]

\* #attributeFixer of the title binding
attributeFixer(T, sig, isHydrating) ==
  IF T.oldTitle = {sig.text} THEN T
  ELSE IF isHydrating THEN [T EXCEPT !.oldTitle = {sig.text}]
       ELSE [T EXCEPT !.oldTitle = {sig.text}, !.title = sig.text]

\* #childrenFixer of the text binding
textFixer(T, sig, isHydrating) ==
  IF T.oldText = {sig.text} THEN T
  ELSE IF isHydrating THEN [T EXCEPT !.oldText = {sig.text}]
       ELSE [T EXCEPT !.oldText = {sig.text}, !.text = sig.text]

Fixers == {"property", "attribute", "children"}

\* The fixers of the set fs, run on the tree T
RunFixers(T, sig, fs, isHydrating) ==
  LET T1 == IF "property" \in fs THEN propertyFixer(T, sig, isHydrating) ELSE T
      T2 == IF "attribute" \in fs THEN attributeFixer(T1, sig, isHydrating) ELSE T1
  IN IF "children" \in fs THEN textFixer(T2, sig, isHydrating) ELSE T2

\* Template.hydrate(childNodes): the mounting fixers run with #isHydrating set
hydrate(childNodes, sig) == RunFixers(childNodes, sig, Fixers, TRUE)

\* Template.mountTo(container) of a fresh instance: the mounting fixers run
mountToContainer(sig) == RunFixers([NoTree EXCEPT !.live = TRUE], sig, Fixers, FALSE)

\* What a tree renders: boolean property, attribute and text
Rendered(T) == [disabled |-> T.disabled, title |-> T.title, text |-> T.text]

ssrOther == <<schedVars, reactVars, listVars, watchVars, tickVars, treeVars, eventVars, anchorVars>>

\* The server renders the template to a string
Serialize ==
  /\ htmlString = <<>>
  /\ htmlString' = toString(signals)
  /\ UNCHANGED <<signals, hydrated, client, queued, sobs, ssrOther>>

\* The browser parses the string and the client instance hydrates the nodes
Hydrate ==
  /\ htmlString # <<>>
  /\ ~hydrated.live
  /\ hydrated' = hydrate(parse(htmlString), signals)
  /\ UNCHANGED <<signals, htmlString, client, queued, sobs, ssrOther>>

\* An instance of the same template is mounted on the client
MountClient ==
  /\ htmlString # <<>>
  /\ ~client.live
  /\ client' = mountToContainer(signals)
  /\ UNCHANGED <<signals, htmlString, hydrated, queued, sobs, ssrOther>>

\* disabled.value = b: both instances queue the ?disabled binding's fixer
WriteDisabled ==
  \E b \in BOOLEAN :
    /\ hydrated.live /\ client.live
    /\ sobs < MaxWrites
    /\ signals' = [signals EXCEPT !.disabled = b]
    /\ queued' = queued \cup {"property"}
    /\ sobs' = sobs + 1
    /\ UNCHANGED <<htmlString, hydrated, client, ssrOther>>

\* text.value = t: both instances queue the fixers of the title and the text
WriteText ==
  \E t \in Texts :
    /\ hydrated.live /\ client.live
    /\ sobs < MaxWrites
    /\ signals' = [signals EXCEPT !.text = t]
    /\ queued' = queued \cup {"attribute", "children"}
    /\ sobs' = sobs + 1
    /\ UNCHANGED <<htmlString, hydrated, client, ssrOther>>

\* The flush runs the queued fixers of both instances
SsrFlush ==
  /\ queued # {}
  /\ hydrated' = RunFixers(hydrated, signals, queued, FALSE)
  /\ client' = RunFixers(client, signals, queued, FALSE)
  /\ queued' = {}
  /\ UNCHANGED <<signals, htmlString, sobs, ssrOther>>

\* The template's signals hold any values when the server renders it
InitSsr ==
  /\ SchedInit
  /\ ReactInit
  /\ ListInit
  /\ WatchInit
  /\ TickInit
  /\ TreeInit
  /\ EventInit
  /\ AnchorInit
  /\ signals \in [disabled : BOOLEAN, text : Texts]
  /\ htmlString = <<>>
  /\ hydrated = NoTree
  /\ client = NoTree
  /\ queued = {}
  /\ sobs = 0

NextSsr ==
  \/ Serialize
  \/ Hydrate
  \/ MountClient
  \/ WriteDisabled
  \/ WriteText
  \/ SsrFlush

SpecSsr == InitSsr /\ [][NextSsr]_vars

\* C20: the instance hydrated over the parsed toString() output renders the
\* same boolean property, attribute and text as the instance mounted on the
\* client with the same values, after the same writes and flushes.
C20_HydratedRendersAsMounted ==
  hydrated.live /\ client.live /\ queued = {} => Rendered(hydrated) = Rendered(client)

\* C27: for the ?disabled binding the serialized output carries the plain
\* disabled attribute exactly when the bound value is true, and the mounted
\* instance's disabled property is the boolean of the bound value.
C27_BooleanBindingMirrored ==
  /\ htmlString # <<>> /\ sobs = 0 => (htmlString.boolAttr <=> signals.disabled)
  /\ client.live /\ queued = {} => (client.disabled <=> signals.disabled)

\* ------------------------------- one template at several placeholders
\* templateA = html`<p>${() => text.value}</p>` and templateB =
\* html`<div>${templateA} -- ${templateA}</div>`: the placeholders of templateB
Places == {1, 2}

\* An SSRTemplate as html`` returns it: #source is the whole template string
NewSSRTemplate == [source |-> TRUE]

\* SSRTemplate.toString(dId): the anchors around what parse() writes; parse()
\* consumes #source through #advanceBy and stops at once when #source is
\* empty; body is what lies between the anchors
ssrToString(ssrTemplate, sig) ==
  [body |-> IF ssrTemplate.source
            THEN <<"<p>">> \o toString(sig).textNode \o <<"</p>">>
            ELSE <<>>,
   ssrTemplate |-> [source |-> FALSE]]

\* #onText of templateB: value.toString(dId) at each placeholder in turn, on
\* the one SSRTemplate interpolated at both
RECURSIVE onText(_, _, _, _)
onText(ssrTemplate, sig, i, bodies) ==
  IF i \notin Places THEN bodies
  ELSE LET R == ssrToString(ssrTemplate, sig)
       IN onText(R.ssrTemplate, sig, i + 1, Append(bodies, R.body))

\* #childrenFixer of placeholder i on the client: templateA.cloneIfInUse() is
\* mounted, and its text binding's fixer shows the signal
mountPlaces(sig) ==
  [i \in Places |-> [inst |-> IF i = 1 THEN <<"templateA", 0>> ELSE <<"clone", i>>,
                     text |-> sig.text]]

\* The server renders templateB to a string
SerializeShared ==
  /\ htmlString = <<>>
  /\ htmlString' = onText(NewSSRTemplate, signals, 1, <<>>)
  /\ UNCHANGED <<signals, hydrated, client, queued, sobs, ssrOther>>

\* templateB.mountTo(container) on the client
MountShared ==
  /\ ~client.live
  /\ client' = [live |-> TRUE, places |-> mountPlaces(signals)]
  /\ UNCHANGED <<signals, htmlString, hydrated, queued, sobs, ssrOther>>

\* text.value = t: the instance and its clones queue their text fixer
WriteShared ==
  \E t \in Texts :
    /\ client.live
    /\ sobs < MaxWrites
    /\ signals' = [signals EXCEPT !.text = t]
    /\ queued' = {"children"}
    /\ sobs' = sobs + 1
    /\ UNCHANGED <<htmlString, hydrated, client, ssrOther>>

\* The flush runs the queued text fixers
FlushShared ==
  /\ queued # {}
  /\ client' = [client EXCEPT !.places = [i \in Places |-> [@[i] EXCEPT !.text = signals.text]]]
  /\ queued' = {}
  /\ UNCHANGED <<signals, htmlString, hydrated, sobs, ssrOther>>

NextShared ==
  \/ SerializeShared
  \/ MountShared
  \/ WriteShared
  \/ FlushShared

SpecShared == InitSsr /\ [][NextShared]_vars

\* C28: templateA is rendered at every placeholder of templateB with the same
\* content: on the client the instance itself at one placeholder and a fresh
\* clone at each other, all showing the current text; on the server its
\* serialization at each placeholder.
C28_SameContentAtEveryPlace ==
  /\ client.live /\ queued = {} =>
       /\ \A i \in Places : client.places[i].text = signals.text
       /\ \A i, j \in Places : i # j => client.places[i].inst # client.places[j].inst
       /\ \E i \in Places : client.places[i].inst = <<"templateA", 0>>
  /\ htmlString # <<>> =>
       \A i \in Places : htmlString[i] # <<>> /\ htmlString[i] = htmlString[1]

\* ================================================================ nextTick
\* nextTick(): currentPromise ("flush", the promise of the pending flush) if
\* there is one, the module's resolved promise p otherwise
nextTick(s) == IF s.currentPromise THEN "flush" ELSE "p"

\* The tasks in the buckets of s that are still to be run; cur is the bucket
\* flushTasks is iterating
PendingIn(s, cur) ==
  {c \in Calls : \E i \in 1..Len(s.tasks[c[2]]) :
                    /\ s.tasks[c[2]][i] = c[1]
                    /\ c[2] = cur => i > s.idx}

\* What a nextTick() call made in the scheduler state s records
Awaiting(s, cur) ==
  [tick EXCEPT !.awaited = nextTick(s),
               !.flushAtCall = s.currentPromise,
               !.resolved = (nextTick(s) = "p"),
               !.pending = PendingIn(s, cur),
               !.inFlush = (cur \in Buckets)]

tickOther == <<hist, reactVars, listVars, watchVars, ssrVars, treeVars, eventVars, anchorVars>>

\* User code calls queueTask(t, p) for a non-immediate p
TickQueueTask ==
  \E t \in Tasks, p \in Buckets :
    /\ Quiet
    /\ tick.calls < MaxCalls
    /\ SetSched(queueTask(SchedState, "idle", t, p))
    /\ tick' = [tick EXCEPT !.calls = @ + 1]
    /\ pc' = IF pc = "aborted" THEN "aborted" ELSE "idle"
    /\ UNCHANGED tickOther

\* User code calls nextTick() outside a flush
TickNextTick ==
  /\ Quiet
  /\ tick.awaited = "none"
  /\ tick' = Awaiting(SchedState, "idle")
  /\ pc' = IF pc = "aborted" THEN "aborted" ELSE "idle"
  /\ UNCHANGED <<tasks, currentPromise, microtask, idx, tickOther>>

TickFlushStart ==
  /\ FlushBegin
  /\ UNCHANGED <<tick, tickOther>>

\* forEach calls the next task of the bucket: the task makes its queueTask
\* calls and may then call nextTick()
TickRunTask ==
  \E body \in Bodies(tick.calls), calling \in BOOLEAN :
    /\ pc \in Buckets
    /\ idx < Len(tasks[pc])
    /\ calling => tick.awaited = "none"
    /\ LET t == tasks[pc][idx + 1]
           s == RunBody([SchedState EXCEPT !.idx = idx + 1], pc, body)
           k == [tick EXCEPT !.calls = @ + Len(body), !.pending = @ \ {<<t, pc>>}]
       IN /\ SetSched(s)
          /\ tick' = IF calling THEN [Awaiting(s, pc) EXCEPT !.calls = k.calls] ELSE k
    /\ UNCHANGED <<pc, tickOther>>

\* forEach calls the next task of the bucket; the task throws, and the
\* promise of the flush is rejected
TickRunTaskThrows ==
  /\ pc \in Buckets
  /\ idx < Len(tasks[pc])
  /\ idx' = idx + 1
  /\ pc' = "aborted"
  /\ tick' = [tick EXCEPT !.pending = @ \ {<<tasks[pc][idx + 1], pc>>}]
  /\ UNCHANGED <<tasks, currentPromise, microtask, tickOther>>

\* forEach is through with the bucket; when flushTasks returns, the promise
\* of the flush resolves
TickBucketDone ==
  /\ BucketEnd
  /\ tick' = IF NextBucket(pc) = "done" /\ tick.awaited = "flush"
             THEN [tick EXCEPT !.resolved = TRUE] ELSE tick
  /\ UNCHANGED tickOther

InitTick ==
  /\ SchedInit
  /\ ReactInit
  /\ ListInit
  /\ WatchInit
  /\ SsrInit
  /\ TickInit
  /\ TreeInit
  /\ EventInit
  /\ AnchorInit

NextTick ==
  \/ TickQueueTask
  \/ TickNextTick
  \/ TickFlushStart
  \/ TickRunTask
  \/ TickRunTaskThrows
  \/ TickBucketDone

SpecTick == InitTick /\ [][NextTick]_vars

\* C30: the promise nextTick() returns while a flush is pending resolves only
\* after every task that was pending at the call has executed, and with no
\* flush pending nextTick() returns an already-resolved promise.
C30_ResolvesAfterPendingRan ==
  /\ tick.awaited = "flush" /\ tick.resolved => tick.pending = {}
  /\ tick.awaited # "none" /\ ~tick.flushAtCall => tick.awaited = "p" /\ tick.resolved

\* ================================================= the template tree
\* The Template a children binding of t interpolates; a clone shares the
\* dynamicPartToGetterMap of its original
Interpolated(t) ==
  IF t = "root" THEN "child2"
  ELSE IF t \in {"child2", "child2@root"} THEN "child1"
  ELSE Null

\* this.clone() called by the fixer of holder
clone(holder) ==
  IF holder = "root" THEN "child2@root"
  ELSE IF holder = "child2" THEN "child1@child2"
  ELSE "child1@child2@root"

\* What one operation works on: the instances' fields, with what the
\* operation reported, initialized, ran and moved
Tree ==
  [nodes |-> nodes, parent |-> parent, children |-> children, fixerArgs |-> fixerArgs,
   dev |-> dev, errors |-> 0, ran |-> {}, inited |-> {}, moved |-> {}]

\* get isInUse(): #doc exists and holds no node
templateInUse(T, t) == T.nodes[t] \notin {"none", "doc"}

\* An #init() without the isInitialized guard: every mountTo() clones the
\* cached structure and parses it anew
initEveryMount(T, t) ==
  [T EXCEPT !.nodes[t] = "doc", !.inited = @ \cup {t}]

\* #init(): the first call clones the cached structure and parses it
init(T, t) ==
  IF T.nodes[t] # "none" THEN T
  ELSE [T EXCEPT !.nodes[t] = "doc", !.inited = @ \cup {t}]

\* The instance the fixer of holder mounts for current: current.cloneIfInUse()
cloneIfInUse(T, current, holder) ==
  IF templateInUse(T, current) THEN clone(holder) ELSE current

\* The world with a fresh Template in place of the clone made before
Fresh(T, c) ==
  [T EXCEPT !.nodes[c] = "none", !.parent[c] = Null, !.children[c] = {},
            !.fixerArgs[c] = [oldValue |-> Null, dynamicNode |-> "text"]]

RECURSIVE unmountTemplate(_, _)
RECURSIVE forEachChildUnmount(_, _)
RECURSIVE templateFixer(_, _, _)
RECURSIVE mountTemplateTo(_, _, _)
RECURSIVE hydrateTemplate(_, _, _)

\* this.#children.forEach(child => child.unmount())
forEachChildUnmount(T, cs) ==
  IF cs = {} THEN T
  ELSE LET c == CHOOSE x \in cs : TRUE
       IN forEachChildUnmount(unmountTemplate(T, c), cs \ {c})

\* unmount(): nothing unless in use; the root nodes return to #doc, the
\* children are unmounted, the parent forgets this, the unmounting fixer
\* resets the binding's oldValue
unmountTemplate(T, t) ==
  IF ~templateInUse(T, t) THEN T
  ELSE LET T1 == [T EXCEPT !.nodes[t] = "doc", !.moved = @ \cup {t}]
           T2 == forEachChildUnmount(T1, T1.children[t])
           T3 == IF T2.parent[t] # Null
                 THEN [T2 EXCEPT !.children[T2.parent[t]] = @ \ {t}, !.parent[t] = Null]
                 ELSE T2
       IN [T3 EXCEPT !.fixerArgs[t].oldValue = Null]

\* A fixer that mounts whether or not the template is hydrating
templateFixerMounts(T, t, isHydrating) ==
  LET current == Interpolated(t)
      R == [T EXCEPT !.ran = @ \cup {t}]
  IN
  IF current = Null THEN T
  ELSE IF R.fixerArgs[t].oldValue = current THEN R
  ELSE
    LET T1 == [R EXCEPT !.fixerArgs[t].oldValue = current, !.moved = @ \cup {"text"}]
        node == cloneIfInUse(T1, current, t)
        T3 == [(IF node = current THEN T1 ELSE Fresh(T1, node))
                 EXCEPT !.fixerArgs[t].dynamicNode = node]
    IN mountTemplateTo(T3, node, t)

\* #childrenFixer of t's binding, whose interpolator is a Template
templateFixer(T, t, isHydrating) ==
  LET current == Interpolated(t)
      R == [T EXCEPT !.ran = @ \cup {t}]
  IN
  IF current = Null THEN T
  ELSE IF R.fixerArgs[t].oldValue = current THEN R
  ELSE
    LET previous == R.fixerArgs[t].dynamicNode
        T1 == [R EXCEPT !.fixerArgs[t].oldValue = current]
        T2 == IF previous \in Insts THEN unmountTemplate(T1, previous)
              ELSE IF ~isHydrating THEN [T1 EXCEPT !.moved = @ \cup {"text"}]
              ELSE T1
        node == cloneIfInUse(T2, current, t)
        T3 == [(IF node = current THEN T2 ELSE Fresh(T2, node))
                 EXCEPT !.fixerArgs[t].dynamicNode = node]
    IN IF isHydrating THEN hydrateTemplate(T3, node, t)
       ELSE mountTemplateTo(T3, node, t)

\* mountTo(parent, anchorNode): #init, the mounting fixers, then the placement;
\* dest is "body" for a DOM node
mountTemplateTo(T, t, dest) ==
  LET T1 == templateFixer(init(T, t), t, FALSE) IN
  IF dest \in Insts
  THEN IF T1.dev /\ templateInUse(T1, t)
       THEN [T1 EXCEPT !.errors = @ + 1]
       ELSE IF templateInUse(T1, t)
            THEN [T1 EXCEPT !.parent[t] = dest, !.children[dest] = @ \cup {t}]
            ELSE [T1 EXCEPT !.parent[t] = dest, !.children[dest] = @ \cup {t},
                            !.nodes[t] = dest, !.moved = @ \cup {t}]
  ELSE IF templateInUse(T1, t)
       THEN [T1 EXCEPT !.parent[t] = Null]
       ELSE [T1 EXCEPT !.parent[t] = Null, !.nodes[t] = dest, !.moved = @ \cup {t}]

\* hydrate(childNodes): #doc is a new empty fragment, the server's nodes stay
\* where they are (in where), the bindings are bound to them, then the
\* mounting fixers run with #isHydrating set
hydrateTemplate(T, t, where) ==
  templateFixer([T EXCEPT !.nodes[t] = where], t, TRUE)

treeOther == <<schedVars, reactVars, listVars, watchVars, ssrVars, tickVars, eventVars, anchorVars>>

SetTree(T, op, target, dest) ==
  /\ tobs.ops < MaxOps
  /\ nodes' = T.nodes
  /\ parent' = T.parent
  /\ children' = T.children
  /\ fixerArgs' = T.fixerArgs
  /\ tobs' = [op |-> op, target |-> target, dest |-> dest, errors |-> T.errors,
              ran |-> T.ran, inited |-> T.inited, moved |-> T.moved,
              wasInUse |-> templateInUse(Tree, target), ops |-> tobs.ops + 1]
  /\ UNCHANGED <<dev, treeOther>>

\* The instance whose binding interpolates the original t
Holder(t) == IF t = "child2" THEN "root" ELSE IF t = "child1" THEN "child2" ELSE Null

\* User code calls t.mountTo(document.body)
TreeMountToBody ==
  \E t \in Originals : SetTree(mountTemplateTo(Tree, t, "body"), "mountTo", t, "body")

\* User code calls t.mountTo(p, anchor) with the anchor of p's binding, which
\* exists once p is initialized
TreeMountToParent ==
  \E t \in Originals \ {"root"} :
    /\ nodes[Holder(t)] # "none"
    /\ SetTree(mountTemplateTo(Tree, t, Holder(t)), "mountTo", t, Holder(t))

\* User code calls t.unmount()
TreeUnmount ==
  \E t \in Originals : SetTree(unmountTemplate(Tree, t), "unmount", t, Null)

\* User code calls t.update(), and the flush runs the queued fixer of t's
\* binding; the updating fixers exist once t is initialized
TreeUpdate ==
  \E t \in Originals \ {"child1"} :
    /\ nodes[t] # "none"
    /\ SetTree(templateFixer(Tree, t, FALSE), "update", t, Null)

\* On a page the server rendered, root.hydrate(childNodes) before anything else
TreeHydrate ==
  /\ \A t \in Insts : nodes[t] = "none"
  /\ SetTree(hydrateTemplate(Tree, "root", "body"), "hydrate", "root", "body")

InitTree ==
  /\ SchedInit
  /\ ReactInit
  /\ ListInit
  /\ WatchInit
  /\ SsrInit
  /\ TickInit
  /\ \E d \in BOOLEAN : TreeStart(d)
  /\ EventInit
  /\ AnchorInit

NextTree ==
  \/ TreeMountToBody
  \/ TreeMountToParent
  \/ TreeUnmount
  \/ TreeUpdate
  \/ TreeHydrate

SpecTree == InitTree /\ [][NextTree]_vars

\* -------------------------------------------------- tree properties
InUse(t) == nodes[t] \notin {"none", "doc"}

\* C24: a mountTo() on an instance in use reports a diagnostic and leaves the
\* parent, the children sets and the placement as they were, and runs no
\* mounting fixer again.
C24_MountInUseNoEffect ==
  [][tobs'.op = "mountTo" /\ tobs'.wasInUse =>
       /\ tobs'.errors > 0
       /\ nodes' = nodes
       /\ parent' = parent
       /\ children' = children
       /\ tobs'.ran = {}]_vars

\* C23: after any sequence of mountTo, unmount, update-and-flush and hydrate,
\* an instance c is in the children set of p exactly when c.parent is p.
C23_ChildrenIffParent ==
  \A c, p \in Insts : c \in children[p] <=> parent[c] = p

WithChildren(S) == S \cup UNION {children[c] : c \in S}

\* t with every instance below it in the children sets
Subtree(t) == WithChildren(WithChildren(WithChildren({t})))

\* C22: after unmount() of an instance in use, it and all its descendants are
\* not in use, have no parent and no children, and are in no children set of
\* their former parents; unmount() of an instance not in use changes nothing.
C22_UnmountDetachesSubtree ==
  [][tobs'.op = "unmount" =>
       IF tobs'.wasInUse
       THEN \A d \in Subtree(tobs'.target) :
              /\ nodes'[d] = "doc"
              /\ parent'[d] = Null
              /\ children'[d] = {}
              /\ \A p \in Insts : d \notin children'[p]
       ELSE <<nodes, parent, children, fixerArgs>>' = <<nodes, parent, children, fixerArgs>>]_vars

\* C25: when the fixer of a children binding runs and the getter returns the
\* instance of the previous run, which the binding mounted and which is now
\* not in use, the run mounts that instance into the binding's template again.
C25_DetachedEqualReattached ==
  [][tobs'.op = "update"
       /\ fixerArgs[tobs'.target].oldValue = Interpolated(tobs'.target)
       /\ fixerArgs[tobs'.target].dynamicNode = Interpolated(tobs'.target)
       /\ ~InUse(Interpolated(tobs'.target))
     => /\ nodes'[Interpolated(tobs'.target)] = tobs'.target
        /\ parent'[Interpolated(tobs'.target)] = tobs'.target]_vars

\* C21: while hydrate() runs over the server's markup no node is inserted or
\* removed and no cached structure is cloned and parsed: the nodes stay where
\* the server put them and only the mounting fixers run.
C21_HydrateKeepsNodes ==
  tobs.op = "hydrate" =>
    /\ tobs.moved = {}
    /\ tobs.inited = {}
    /\ tobs.ran = {"root", "child2"}
    /\ nodes["root"] = "body" /\ nodes["child2"] = "root" /\ nodes["child1"] = "child2"

C21_Witness ==
  /\ tobs.op = "hydrate"
  /\ InUse("root") /\ InUse("child2") /\ InUse("child1")
  /\ fixerArgs["root"].dynamicNode = "child2"

\* C36: after hydrate() every nested instance hydrated inside a parent has
\* that parent as its parent and is in the parent's children set, as after
\* mountTo(), so that unmounting the parent unmounts it too.
C36_HydratedAreChildren ==
  tobs.op = "hydrate" =>
    /\ parent["child2"] = "root" /\ "child2" \in children["root"]
    /\ parent["child1"] = "child2" /\ "child1" \in children["child2"]

\* C32: an instance is uninitialized when html`...` returns; the structural
\* walk of #init() runs at the first mountTo() of the instance, which finds it
\* uninitialized, and at no later mountTo(), update or unmount(): once
\* initialized the instance stays so, across unmount() and a new mountTo().
C32_InitOnceAtFirstMount ==
  /\ \A t \in Originals : nodes[t] = "none"
  /\ [][\A t \in Originals :
          /\ t \in tobs'.inited => nodes[t] = "none" /\ nodes'[t] # "none"
          /\ nodes[t] = "none" /\ nodes'[t] # "none" /\ tobs'.op # "hydrate"
               => t \in tobs'.inited
          /\ nodes[t] # "none" => nodes'[t] # "none"]_vars

\* root is mounted again after an unmount(), with nothing to initialize
C32_Witness ==
  /\ tobs.op = "mountTo"
  /\ tobs.target = "root"
  /\ ~tobs.wasInUse
  /\ tobs.inited = {}
  /\ tobs.moved = {"root", "child2", "child1"}
  /\ InUse("root") /\ InUse("child2") /\ InUse("child1")

\* ================================================ lists without keys
\* What the items of a list show: data.map(item => html`<li>${item.name}</li>`)
\* over data of pairwise distinct names
Names == 1..MaxItems

NameLists ==
  {l \in UNION {[1..n -> Names] : n \in 0..MaxItems} :
     \A i, j \in 1..Len(l) : i # j => l[i] # l[j]}

\* The Template[] built by getter call r: html`...` without a key, #key is null
NewUnkeyed(r, ns) == [i \in 1..Len(ns) |-> <<r, 0, ns[i]>>]

NamesOf(list) == [i \in 1..Len(list) |-> list[i][3]]

\* The mounting fixer's run: the Text node gives way to the getter's list
MountUnkeyed ==
  /\ ~dynamicNode.isArray
  /\ \E ns \in NameLists :
       \E new \in {NewUnkeyed(round + 1, ns)} :
       \E D \in {MountAll(DomState, new, 0)} :
       /\ round' = round + 1
       /\ slot' = D.slot
       /\ initialized' = D.initialized
       /\ dynamicNode' = [isArray |-> TRUE, list |-> new]
       /\ crashed' = D.crashed
       /\ lobs' = [before |-> <<>>, new |-> new, mounted |-> D.mounted,
                   unmounted |-> D.unmounted, adopted |-> D.adopted]
       /\ UNCHANGED listOther

\* An updating fixer run out of a flush: the getter returns a new list
UpdateUnkeyed ==
  /\ dynamicNode.isArray
  /\ ~crashed
  /\ round < MaxRounds
  /\ \E ns \in NameLists :
       \E new \in {NewUnkeyed(round + 1, ns)} :
       \E R \in {Reconciled(dynamicNode.list, new)} :
       \E list \in {IF R.D.crashed THEN R.old ELSE new} :
       /\ round' = round + 1
       /\ slot' = R.D.slot
       /\ dynamicNode' = [isArray |-> TRUE, list |-> list]
       /\ initialized' = R.D.initialized \cap (Range(R.D.slot) \cup Range(list))
       /\ crashed' = R.D.crashed
       /\ lobs' = [before |-> dynamicNode.list, new |-> new, mounted |-> R.D.mounted,
                   unmounted |-> R.D.unmounted, adopted |-> R.D.adopted]
       /\ UNCHANGED listOther

NextUnkeyed ==
  \/ MountUnkeyed
  \/ UpdateUnkeyed

SpecUnkeyed == InitList /\ [][NextUnkeyed]_vars

\* C29: after the fixer has run on a change from list A to list B of a binding
\* whose templates carry no key, the slot holds exactly B's items in B's
\* order and no item of A.
C29_UnkeyedSlotIsNewList ==
  Updated =>
    /\ ~crashed
    /\ slot = lobs.new
    /\ NamesOf(slot) = NamesOf(lobs.new)
    /\ Range(slot) \cap Range(lobs.before) = {}
    /\ lobs.unmounted = Range(lobs.before)

\* A reorder that also drops an item, after an earlier update
C29_Witness ==
  /\ round = 3
  /\ NamesOf(lobs.before) = <<1, 2, 3>>
  /\ NamesOf(lobs.new) = <<3, 1>>
  /\ slot = lobs.new

\* ===================================== a binding of lists and single values
\* () => isLoading ? html`<li>Loading...</li>` : renderList(), or a string
SlotKeyLists ==
  {l \in UNION {[1..n -> 1..MaxSlotKey] : n \in 0..MaxSlotKey} :
     \A i, j \in 1..Len(l) : i # j => l[i] # l[j]}

\* The strings the getter may return
SlotTexts == {1, 2}

\* createTextNode(String(current)) made by fixer run r: no key, the string
TextNode(r, str) == <<r, -1, str>>

\* html`<li>Loading...</li>` built by getter call r
NewTemplate(r) == <<r, 0>>

isTemplate(x) == x[2] # -1

\* previous.forEach(tpl => tpl.unmount())
RECURSIVE forEachUnmount(_, _, _)
forEachUnmount(D, previous, i) ==
  IF i >= Len(previous) THEN D
  ELSE forEachUnmount(unmount(D, At(previous, i)), previous, i + 1)

\* previous.unmount() for a Template, previous.remove() for a Text; the empty
\* placeholder Text of the parsed template shows nothing
removePrevious(D, previous) ==
  IF previous = <<>> THEN D
  ELSE IF isTemplate(previous[1]) THEN unmount(D, previous[1])
  ELSE [D EXCEPT !.slot = Without(@, previous[1])]

\* current.cloneIfInUse().mountTo(this, anchorNode) for a Template, a new Text
\* inserted before the anchor for anything else
mountSingle(D, current) ==
  IF isTemplate(current) THEN mountTo(D, current, Hole)
  ELSE [D EXCEPT !.slot = Append(@, current)]

\* A fixer run whose getter returns a string or a template: the cases
\* sequence to single value and single value to single value
FixToSingle ==
  /\ ~crashed
  /\ round < MaxRounds
  /\ \E current \in {NewTemplate(round + 1)} \cup {TextNode(round + 1, str) : str \in SlotTexts} :
       /\ ~(~dynamicNode.isArray /\ dynamicNode.list # <<>> /\ ~isTemplate(current)
              /\ dynamicNode.list[1][2] = -1 /\ dynamicNode.list[1][3] = current[3])
       /\ \E D \in {mountSingle(IF dynamicNode.isArray
                                THEN forEachUnmount(DomState, dynamicNode.list, 0)
                                ELSE removePrevious(DomState, dynamicNode.list), current)} :
            /\ round' = round + 1
            /\ slot' = D.slot
            /\ initialized' = D.initialized
            /\ dynamicNode' = [isArray |-> FALSE, list |-> <<current>>]
            /\ crashed' = D.crashed
            /\ lobs' = [before |-> dynamicNode.list, new |-> <<current>>, mounted |-> D.mounted,
                        unmounted |-> D.unmounted, adopted |-> D.adopted,
                        wasArray |-> dynamicNode.isArray]
            /\ UNCHANGED listOther

\* A fixer run whose getter returns a list: the cases single value to
\* sequence and sequence to sequence
FixToList ==
  /\ ~crashed
  /\ round < MaxRounds
  /\ \E ks \in SlotKeyLists :
       \E new \in {NewList(round + 1, ks)} :
       \E R \in {IF dynamicNode.isArray THEN Reconciled(dynamicNode.list, new)
                 ELSE [old |-> <<>>,
                       D |-> MountAll(removePrevious(DomState, dynamicNode.list), new, 0)]} :
       \E list \in {IF R.D.crashed THEN R.old ELSE new} :
       /\ round' = round + 1
       /\ slot' = R.D.slot
       /\ dynamicNode' = [isArray |-> TRUE, list |-> list]
       /\ initialized' = R.D.initialized
       /\ crashed' = R.D.crashed
       /\ lobs' = [before |-> dynamicNode.list, new |-> new, mounted |-> R.D.mounted,
                   unmounted |-> R.D.unmounted, adopted |-> R.D.adopted,
                   wasArray |-> dynamicNode.isArray]
       /\ UNCHANGED listOther

NextSlot ==
  \/ FixToSingle
  \/ FixToList

SpecSlot == InitList /\ [][NextSlot]_vars

\* C26: after a fixer run for a transition sequence to single value, single
\* value to sequence or single value to single value, the slot holds exactly
\* the rendering of the current value (one text node, one instance, or the
\* sequence's instances in order) and nothing mounted for the previous value.
C26_SlotIsCurrentValue ==
  round >= 1 /\ ~(lobs.wasArray /\ dynamicNode.isArray) => slot = lobs.new

\* C34: after every fixer run of a list binding the recorded list, the old
\* list of the next reconciliation, is exactly the instances mounted in the
\* slot, in DOM order; hence the slot shows the keys of the latest list in
\* that list's order, also after several successive lists.
C34_RecordIsMountedList ==
  dynamicNode.isArray /\ ~crashed =>
    /\ dynamicNode.list = slot
    /\ KeysOf(slot) = KeysOf(lobs.new)

\* ================================== a list of items with an event binding
\* holder = html`<ul>${() => data.map(item => html(item.id)`<li @click=${h}>..</li>`)}</ul>`
\* The handler the item t was built with: the one function the component
\* keeps for the key when stable, a closure made by the getter call otherwise
HandlerOf(t, stable) == IF stable THEN <<0, KeyOf(t)>> ELSE t

\* #eventFixer on the listeners ls of the element: the handler is read from
\* the getter map; removeEventListener(eventName, handler), then
\* addEventListener(eventName, handler)
eventFixer(ls, handler) == (ls \ {handler}) \cup {handler}

\* The unmounting fixer #parseEvent registers: removeEventListener(eventName,
\* handler) with the handler in the getter map at that time
eventUnmountingFixer(ls, handler) == ls \ {handler}

\* The getter maps after a fixer run: each item of the new list was built
\* with its own, and old.adoptGettersFrom(new) hands the map of new to old
ItemHandlers(D, new, stable) ==
  LET made == [t \in ItemInsts |->
                 IF t \in Range(new) THEN HandlerOf(t, stable) ELSE handlers[t]]
  IN [t \in ItemInsts |->
        IF \E n \in Range(new) : <<t, n>> \in D.adopted
        THEN made[CHOOSE n \in Range(new) : <<t, n>> \in D.adopted]
        ELSE made[t]]

\* The listeners after a fixer run: mountTo() runs the mounting fixers of the
\* item, unmount() its unmounting fixers, and update() after an adoption
\* queues the updating fixers, which an instance has once it is initialized
ItemListeners(D, H) ==
  [t \in ItemInsts |->
     IF t \in D.mounted THEN eventFixer(listeners[t], H[t])
     ELSE IF t \in D.unmounted THEN eventUnmountingFixer(listeners[t], handlers[t])
     ELSE IF t \in D.initialized /\ \E n \in ItemInsts : <<t, n>> \in D.adopted
          THEN eventFixer(listeners[t], H[t])
     ELSE listeners[t]]

itemOther == <<schedVars, reactVars, watchVars, ssrVars, tickVars, treeVars, anchorVars>>

\* A run of the holder's children fixer whose getter returns the list of keys
\* ks: the first run mounts it, a later one reconciles the recorded list
FixItems(ks, stable, state) ==
  /\ ~crashed
  /\ round < MaxRounds
  /\ \E new \in {NewList(round + 1, ks)} :
     \E R \in {IF dynamicNode.isArray THEN Reconciled(dynamicNode.list, new)
               ELSE [old |-> <<>>, D |-> MountAll(DomState, new, 0)]} :
     \E H \in {ItemHandlers(R.D, new, stable)} :
       /\ round' = round + 1
       /\ slot' = R.D.slot
       /\ dynamicNode' = [isArray |-> TRUE, list |-> IF R.D.crashed THEN R.old ELSE new]
       /\ initialized' = R.D.initialized
       /\ crashed' = R.D.crashed
       /\ lobs' = [before |-> dynamicNode.list, new |-> new, mounted |-> R.D.mounted,
                   unmounted |-> R.D.unmounted, adopted |-> R.D.adopted]
       /\ handlers' = H
       /\ listeners' = ItemListeners(R.D, H)
       /\ listHolder' = state
       /\ UNCHANGED itemOther

\* holder.mountTo(document.body): the first mount, or the mount after the
\* unmount(), with which the behaviour ends
ItemMount ==
  \E ks \in SlotKeyLists, stable \in BOOLEAN :
    /\ listHolder \in {"new", "unmounted"}
    /\ FixItems(ks, stable, IF listHolder = "new" THEN "inUse" ELSE "remounted")

\* A write to the data and the flush: the updating fixer of the holder runs,
\* and in the same flush the updating fixers the items queued
ItemUpdate ==
  \E ks \in SlotKeyLists, stable \in BOOLEAN :
    /\ listHolder = "inUse"
    /\ FixItems(ks, stable, "inUse")

\* holder.unmount(): #children.forEach(child => child.unmount()), which runs
\* the unmounting fixers of every mounted item; the holder's own unmounting
\* fixer resets oldValue and keeps fixerArgs.dynamicNode
ItemUnmount ==
  /\ listHolder = "inUse"
  /\ ~crashed
  /\ slot' = <<>>
  /\ listeners' = [t \in ItemInsts |->
                     IF t \in Range(slot) THEN eventUnmountingFixer(listeners[t], handlers[t])
                     ELSE listeners[t]]
  /\ lobs' = [lobs EXCEPT !.mounted = {}, !.unmounted = Range(slot), !.adopted = {}]
  /\ listHolder' = "unmounted"
  /\ UNCHANGED <<dynamicNode, initialized, crashed, round, handlers, itemOther>>

NextItem ==
  \/ ItemMount
  \/ ItemUpdate
  \/ ItemUnmount

SpecItem == InitList /\ [][NextItem]_vars

\* C40: at any time the element of an event binding has at most one listener
\* attached, and for a mounted item it is the handler of its current dynamic
\* values: after an update that changed the handler the previous one is gone.
C40_OneListenerAttached ==
  \A t \in ItemInsts :
    /\ Cardinality(listeners[t]) <= 1
    /\ t \in Range(slot) => listeners[t] = {handlers[t]}

\* C35: after unmount() and a new mountTo() the holder shows what a first
\* mount with the current dynamic values shows: the items of the list its
\* getter returns, in the list's order.
C35_RemountShowsCurrentList ==
  listHolder = "remounted" /\ ~crashed => KeysOf(slot) = KeysOf(lobs.new)

\* ====================================== the anchors of serialized templates
\* What a text placeholder of a serialized template may interpolate: a string,
\* a template (the first of d nested in one another, the innermost showing a
\* string), or a list of n items html`<li>${item.name}</li>`
PartValues ==
  {<<"text", 0>>} \cup {<<"tpl", d>> : d \in 1..MaxDepth} \cup {<<"list", n>> : n \in 0..MaxDepth}

\* The templates user code serializes: their text placeholders, dynamic0, ...
RootParts == UNION {[1..n -> PartValues] : n \in 0..MaxParts}

\* The placeholders of the template a <<"tpl", d>> value is
PartsOf(d) == IF d <= 1 THEN <<<<"text", 0>>>> ELSE <<<<"tpl", d - 1>>>>

\* dId of a toString() call without argument: the empty string
NoDId == -1

\* What a serialization works on: the two counters and the comments written
Serial == [templateId |-> templateId, textWarpperId |-> textWarpperId, out |-> <<>>]

RECURSIVE templateToString(_, _, _)
RECURSIVE onTextParts(_, _, _)
RECURSIVE mapToString(_, _)

\* value.map(tpl => tpl.toString()).join('') over n items
mapToString(W, n) ==
  IF n = 0 THEN W ELSE mapToString(templateToString(W, PartsOf(1), NoDId), n - 1)

\* #onText for the placeholders from dynamic<i> on: the value rendered between
\* its comments according to its kind, then the children anchor
onTextParts(W, parts, i) ==
  IF i >= Len(parts) THEN W
  ELSE
    LET current == parts[i + 1]
        W1 == IF current[1] = "tpl" THEN templateToString(W, PartsOf(current[2]), i)
              ELSE IF current[1] = "list"
              THEN LET id == W.templateId
                       W2 == mapToString([W EXCEPT !.templateId = @ + 1,
                                                   !.out = Append(@, <<"[[", id, i>>)],
                                          current[2])
                   IN [W2 EXCEPT !.out = Append(@, <<"]]", id, i>>)]
              ELSE LET textWrapperId == W.textWarpperId
                   IN [W EXCEPT !.textWarpperId = @ + 1,
                                !.out = @ \o <<<<"%", textWrapperId, i>>,
                                               <<"%%", textWrapperId, i>>>>]
    IN onTextParts([W1 EXCEPT !.out = Append(@, <<"^", 0, 0>>)], parts, i + 1)

\* A toString(dId) that reads templateId without incrementing it
templateToStringSameId(W, parts, dId) ==
  LET id == W.templateId
      W1 == onTextParts([W EXCEPT !.out = Append(@, <<"[", id, dId>>)], parts, 0)
  IN [W1 EXCEPT !.out = Append(@, <<"]", id, dId>>)]

\* SSRTemplate.toString(dId): const id = templateId++, the start comment,
\* parse(), the end comment
templateToString(W, parts, dId) ==
  LET id == W.templateId
      W1 == onTextParts([W EXCEPT !.templateId = @ + 1,
                                  !.out = Append(@, <<"[", id, dId>>)], parts, 0)
  IN [W1 EXCEPT !.out = Append(@, <<"]", id, dId>>)]

anchorOther == <<schedVars, reactVars, listVars, watchVars, ssrVars, tickVars, treeVars,
                 eventVars>>

\* User code (a custom element's toString()) serializes a template
SerializeTemplate ==
  \E parts \in RootParts :
    /\ serials < MaxSerial
    /\ \E W \in {templateToString(Serial, parts, NoDId)} :
         /\ templateId' = W.templateId
         /\ textWarpperId' = W.textWarpperId
         /\ chunks' = W.out
    /\ serials' = serials + 1
    /\ UNCHANGED anchorOther

NextAnchor == SerializeTemplate

SpecAnchor == InitList /\ [][NextAnchor]_vars

\* The start comments of templates and of lists in cs, in order
Starts(cs) == SelectSeq(cs, LAMBDA c : c[1] \in {"[", "[["})

\* Every end comment closes the innermost open start comment, of the same
\* kind, id and dId, and nothing stays open; open holds the open comments
RECURSIVE Nested(_, _)
Nested(cs, open) ==
  IF cs = <<>> THEN open = <<>>
  ELSE LET c == Head(cs) IN
       IF c[1] \in {"[", "[["} THEN Nested(Tail(cs), <<c>> \o open)
       ELSE IF c[1] \in {"]", "]]"}
            THEN /\ open # <<>>
                 /\ Head(open) = <<IF c[1] = "]" THEN "[" ELSE "[[", c[2], c[3]>>
                 /\ Nested(Tail(cs), Tail(open))
       ELSE Nested(Tail(cs), open)

\* C31: in the string toString() returns every serialized template and list
\* has one start comment and one end comment of the same id and dId, the
\* comments of a nested template or list lie inside those of the template
\* that contains it, and no id is used twice: the ids grow with every
\* serialization, within one toString() call and from one call to the next.
C31_AnchorsNestedIdsUnique ==
  /\ [](/\ Nested(chunks, <<>>)
        /\ \A i, j \in 1..Len(Starts(chunks)) :
             i < j => Starts(chunks)[i][2] < Starts(chunks)[j][2]
        /\ \A i \in 1..Len(chunks) :
             chunks[i][1] \in {"[", "[[", "]", "]]"} => chunks[i][2] < templateId)
  /\ [][serials' # serials => chunks'[1] = <<"[", templateId, NoDId>>]_vars

\* The second toString() call of the process, on a template that holds a list
\* of one item and a nested template
C31_Witness ==
  /\ serials = 2
  /\ chunks[1][2] > 0
  /\ \E i \in 1..Len(chunks) : chunks[i][1] = "[[" /\ chunks[i + 1][1] = "["
  /\ \E i \in 1..Len(chunks) : chunks[i] = <<"[", chunks[1][2] + 3, 1>>
  /\ Len(Starts(chunks)) = 4

====
